---- MODULE Spec2Model ----
(***************************************************************************)
(* State-machine model of the XeroxYT-NTv4X client: the API mirror         *)
(* failover (utils/api.ts apiFetch), the localStorage response cache        *)
(* (utils/api.ts cache, fetchWithCache) and the cloud sync client           *)
(* (contexts/AuthContext.tsx and its sibling revision with syncAction /     *)
(* syncRecent).                                                             *)
(*                                                                          *)
(* Time is counted in seconds: the source's millisecond values (Date       *)
(* getTime, ttl, setTimeout) divided by 1000.                               *)
(***************************************************************************)
EXTENDS Integers, Sequences, FiniteSets, TLC

VARIABLES
    \* ---- utils/api.ts: mirror failover
    currentApiBase,   \* index into API_MIRRORS of the module-level current mirror
    mirrorOk,         \* environment: does mirror m answer 2xx with a JSON body
    mirrorFail,       \* environment: the way mirror m fails when it does not
    api,              \* per apiFetch call: position and bookkeeping
    calc,             \* the last call of a pure helper of utils/api.ts: argument and result
    \* ---- utils/api.ts: cache over localStorage
    cacheStore,       \* localStorage restricted to the cache keys: key -> item or NoItem
    online,           \* navigator.onLine
    now,              \* new Date().getTime()
    fwc,              \* the fetchWithCache call: position, arguments, snapshot, result
    \* ---- contexts/AuthContext.tsx: cloud sync
    user,             \* React state `user`
    storedUser,       \* localStorage 'xerox_user'
    lists,            \* localStorage searchHistory, videoHistory, shortsHistory, subscribedChannels
    timers,           \* setTimeout callbacks not yet run or cleared
    syncTimeoutRef,   \* syncTimeoutRef.current: id of the last timer set, or NoTimer
    requests,         \* requests issued to the sync backend, in order (history)
    pending,          \* async sync functions awaiting smartFetch
    settled,          \* how the promises of finished sync functions settled (history)
    hist,             \* call counts and debounce bookkeeping (history)
    \* ---- pages/VideoPlayerPage.tsx and pages/HomePage.tsx
    watch,            \* the comment state of the video page and its getComments requests
    home              \* the feed state of the home page and its recommendation requests

apiVars   == <<currentApiBase, mirrorOk, mirrorFail, api, calc>>
cacheVars == <<cacheStore, online, fwc>>
storeVars == <<storedUser, lists>>
syncVars  == <<user, timers, syncTimeoutRef, requests, pending, settled, hist>>
vars      == <<currentApiBase, mirrorOk, mirrorFail, api, calc, cacheStore, online, now,
               fwc, user, storedUser, lists, timers, syncTimeoutRef, requests, pending,
               settled, hist, watch, home>>
pageVars  == <<watch, home>>

(***************************************************************************)
(* Mirror selector and apiFetch                                            *)
(***************************************************************************)

\* API_MIRRORS.length
NumMirrors == 4

API_MIRRORS == 0 .. (NumMirrors - 1)

\* the apiFetch calls that may be in flight together
MaxApiCalls == 2

ApiCalls == 1 .. MaxApiCalls

\* the ways one request can fail: smartFetch rejects, !response.ok, JSON.parse throws
FailureKinds == {"reject", "non2xx", "nonjson"}

\* const switchApiMirror = () => { ... (currentIndex + 1) % API_MIRRORS.length ... }
switchApiMirror(cur) == (cur + 1) % NumMirrors

\* no helper has been called yet
NoCalc == [fn |-> "none", done |-> TRUE]

\* prev is the mirror of the last request of the call made before this one (history)
IdleCall ==
    [pc |-> "idle", retries |-> 0, target |-> 0, attempts |-> 0, switches |-> 0,
     tried |-> {}, result |-> -1, err |-> "none", prev |-> -1]

ApiFetchFromFirst(c) ==
    /\ api[c].pc # "waiting"
    /\ currentApiBase' = 0
    /\ api' = [api EXCEPT ![c] =
                  [pc |-> "waiting", retries |-> NumMirrors,
                   target |-> 0, attempts |-> 1, switches |-> 0,
                   tried |-> {0}, result |-> -1, err |-> "none",
                   prev |-> IF api[c].pc = "idle" THEN -1 ELSE api[c].target]]
    /\ UNCHANGED <<mirrorOk, mirrorFail>>

\* apiFetch(endpoint, options) with the default retries = API_MIRRORS.length:
\* builds the url from currentApiBase and awaits smartFetch
ApiFetch(c) ==
    /\ api[c].pc # "waiting"
    /\ api' = [api EXCEPT ![c] =
                  [pc |-> "waiting", retries |-> NumMirrors,
                   target |-> currentApiBase, attempts |-> 1, switches |-> 0,
                   tried |-> {currentApiBase}, result |-> -1, err |-> "none",
                   prev |-> IF api[c].pc = "idle" THEN -1 ELSE api[c].target]]
    /\ UNCHANGED <<currentApiBase, mirrorOk, mirrorFail>>

\* what smartFetch and the body give for one request to mirror m
Response(m) ==
    [rejected |-> ~mirrorOk[m] /\ mirrorFail[m] = "reject",
     ok       |-> mirrorOk[m] \/ mirrorFail[m] # "non2xx",
     json     |-> mirrorOk[m] \/ mirrorFail[m] # "nonjson"]

TryBlockNoStatus(resp) ==
    IF resp.rejected THEN "reject"
    ELSE IF ~resp.json THEN "nonjson"
    ELSE "data"

\* the try block of apiFetch: await smartFetch, JSON.parse of the text, the
\* test of response.ok; "data" is the return, anything else the error caught
TryBlock(resp) ==
    IF resp.rejected THEN "reject"
    ELSE IF ~resp.json THEN "nonjson"
    ELSE IF ~resp.ok THEN "non2xx"
    ELSE "data"

\* the awaited request settles: return data, or catch -> switch and recurse,
\* or rethrow when retries is exhausted
ApiSettle(c) ==
    /\ api[c].pc = "waiting"
    /\ LET res == TryBlock(Response(api[c].target))
       IN  \/ /\ res = "data"
              /\ api' = [api EXCEPT ![c].pc = "returned", ![c].result = api[c].target]
              /\ UNCHANGED currentApiBase
           \/ /\ res # "data"
              /\ api[c].retries > 0
              /\ currentApiBase' = switchApiMirror(currentApiBase)
              /\ api' = [api EXCEPT ![c].retries = @ - 1,
                                    ![c].target = currentApiBase',
                                    ![c].attempts = @ + 1,
                                    ![c].switches = @ + 1,
                                    ![c].tried = @ \cup {currentApiBase'}]
           \/ /\ res # "data"
              /\ api[c].retries = 0
              /\ api' = [api EXCEPT ![c].pc = "thrown", ![c].err = res]
              /\ UNCHANGED currentApiBase
    /\ UNCHANGED <<mirrorOk, mirrorFail>>

\* every failing mirror fails the same way
UniformFailures == {[m \in API_MIRRORS |-> kind] : kind \in FailureKinds}

InitApi ==
    /\ currentApiBase \in API_MIRRORS
    /\ mirrorOk \in [API_MIRRORS -> BOOLEAN]
    /\ mirrorFail \in UniformFailures
    /\ api = [c \in ApiCalls |-> IdleCall]
    /\ calc = NoCalc

IdleApi ==
    /\ currentApiBase = 0
    /\ mirrorOk = [m \in API_MIRRORS |-> TRUE]
    /\ mirrorFail = [m \in API_MIRRORS |-> "reject"]
    /\ api = [c \in ApiCalls |-> IdleCall]
    /\ calc = NoCalc

(***************************************************************************)
(* Time                                                                    *)
(***************************************************************************)

\* setTimeout(..., 2000) in triggerAutoSync
DEBOUNCE_MS == 2000

\* the debounce delay in seconds
Debounce == DEBOUNCE_MS \div 1000

\* the clock of the debounce runs stops after this many seconds
MaxTicks == 4

\* the clock of the cache runs stops after this many seconds
MaxCacheAge == 2

\* const CACHE_TTL = 365 * 24 * 60 * 60 * 1000 (milliseconds), in seconds
CACHE_TTL == 365 * 24 * 60 * 60

(***************************************************************************)
(* localStorage: the application keys                                      *)
(***************************************************************************)

NoUser == [id |-> "", password |-> ""]

ListKeys == {"searchHistory", "videoHistory", "shortsHistory", "subscribedChannels"}

EmptyLists == [k \in ListKeys |-> <<>>]

(***************************************************************************)
(* The response cache: cache.get, cache.set, fetchWithCache                *)
(***************************************************************************)

\* keys the API client caches under (fetchWithCache call sites)
CacheKeys == {"home-feed-videos", "video-details-v8-a"}

\* what a fetcher can resolve with; "undefined" and "NaN" are the JavaScript values
Values == {"v1", "v2", "NaN", "undefined"}

\* ttl arguments: 0 (getRecommendedVideos), a short ttl, the default
Ttls == {0, 1, CACHE_TTL}

\* localStorage.getItem(key) === null
NoItem == [data |-> "none", expiry |-> -1]

\* JSON.parse(JSON.stringify(v)) for a value nested in an object: NaN becomes null
JsonRoundTrip(v) == IF v = "NaN" THEN "null" ELSE v

CacheItemNoTtl(value, ttl, t) == [data |-> JsonRoundTrip(value), expiry |-> t]

\* const item: CacheItem = { data: value, expiry: new Date().getTime() + ttl }
\* as read back by JSON.parse
CacheItem(value, ttl, t) == [data |-> JsonRoundTrip(value), expiry |-> t + ttl]

\* cache.get: the parsed item, or null
cache_get(store, key) == store[key]

\* how localStorage.setItem can end: stored, QuotaExceededError, another exception
SetOutcomes == {"stored", "quota", "error"}

cache_set_if_absent(store, key, value, ttl, t, outcome) ==
    IF value = "undefined" \/ store[key] # NoItem THEN store
    ELSE IF outcome = "stored" THEN [store EXCEPT ![key] = CacheItem(value, ttl, t)]
    ELSE IF outcome = "quota" THEN [k \in CacheKeys |-> NoItem]
    ELSE store

\* cache.set, its effect on the cache keys of localStorage
cache_set(store, key, value, ttl, t, outcome) ==
    IF value = "undefined" THEN store
    ELSE IF outcome = "stored" THEN [store EXCEPT ![key] = CacheItem(value, ttl, t)]
    ELSE IF outcome = "quota" THEN [k \in CacheKeys |-> NoItem]
    ELSE store

\* cache.set, its effect on the other keys of localStorage: localStorage.clear()
\* on QuotaExceededError removes them too
cache_set_clears(value, outcome) == value # "undefined" /\ outcome = "quota"

FreshHitNoExpiry(item, ttl, t) == item # NoItem /\ ttl > 0

\* line 73: cachedItem && ttl > 0 && now < cachedItem.expiry
FreshHit(item, ttl, t) == item # NoItem /\ ttl > 0 /\ t < item.expiry

OfflineHitMissing(item, on) == FALSE

\* line 74: !navigator.onLine && cachedItem
OfflineHit(item, on) == ~on /\ item # NoItem

EffectiveTtlRaw(ttl) == ttl

\* line 77: ttl === 0 ? CACHE_TTL : ttl
EffectiveTtl(ttl) == IF ttl = 0 THEN CACHE_TTL ELSE ttl

HasFallbackNever(item) == FALSE

\* line 80: if (cachedItem) return cachedItem.data
HasFallback(item) == item # NoItem

\* the fetchWithCache calls that may be in flight together
MaxFetchers == 2

Fetchers == 1 .. MaxFetchers

\* a call record: the arguments, the item read at the start (while the call is in
\* flight), and how the call ended
IdleFetch ==
    [pc |-> "idle", key |-> "home-feed-videos", ttl |-> 0, cachedItem |-> NoItem,
     path |-> "none", result |-> "none", outcome |-> "none"]

FetchWithCacheTouch(c, key, ttl) ==
    /\ fwc[c].pc # "fetching"
    /\ LET cachedItem == cache_get(cacheStore, key)
           call == [pc |-> "returned", key |-> key, ttl |-> ttl, cachedItem |-> NoItem,
                    path |-> "none", result |-> "none", outcome |-> "none"]
       IN  \/ /\ FreshHit(cachedItem, ttl, now)
              /\ fwc' = [fwc EXCEPT ![c] =
                            [call EXCEPT !.path = "fresh", !.result = cachedItem.data]]
              /\ cacheStore' = [cacheStore EXCEPT ![key].expiry = now + ttl]
           \/ /\ ~FreshHit(cachedItem, ttl, now)
              /\ OfflineHit(cachedItem, online)
              /\ fwc' = [fwc EXCEPT ![c] =
                            [call EXCEPT !.path = "offline", !.result = cachedItem.data]]
              /\ UNCHANGED cacheStore
           \/ /\ ~FreshHit(cachedItem, ttl, now)
              /\ ~OfflineHit(cachedItem, online)
              /\ fwc' = [fwc EXCEPT ![c] =
                            [call EXCEPT !.pc = "fetching", !.cachedItem = cachedItem]]
              /\ UNCHANGED cacheStore
    /\ UNCHANGED <<online, storedUser, lists>>

\* fetchWithCache(key, fetcher, ttl) up to its first await
FetchWithCache(c, key, ttl) ==
    /\ fwc[c].pc # "fetching"
    /\ LET cachedItem == cache_get(cacheStore, key)
           call == [pc |-> "returned", key |-> key, ttl |-> ttl, cachedItem |-> NoItem,
                    path |-> "none", result |-> "none", outcome |-> "none"]
       IN  \/ /\ FreshHit(cachedItem, ttl, now)
              /\ fwc' = [fwc EXCEPT ![c] =
                            [call EXCEPT !.path = "fresh", !.result = cachedItem.data]]
           \/ /\ ~FreshHit(cachedItem, ttl, now)
              /\ OfflineHit(cachedItem, online)
              /\ fwc' = [fwc EXCEPT ![c] =
                            [call EXCEPT !.path = "offline", !.result = cachedItem.data]]
           \/ /\ ~FreshHit(cachedItem, ttl, now)
              /\ ~OfflineHit(cachedItem, online)
              /\ fwc' = [fwc EXCEPT ![c] =
                            [call EXCEPT !.pc = "fetching", !.cachedItem = cachedItem]]
    /\ UNCHANGED <<cacheStore, online, storedUser, lists>>

\* the fetcher resolves: cache.set(key, data, ttl === 0 ? CACHE_TTL : ttl); return data
FetcherResolves(c, data, outcome) ==
    /\ fwc[c].pc = "fetching"
    /\ cacheStore' = cache_set(cacheStore, fwc[c].key, data, EffectiveTtl(fwc[c].ttl),
                               now, outcome)
    /\ IF cache_set_clears(data, outcome)
       THEN storedUser' = NoUser /\ lists' = EmptyLists
       ELSE UNCHANGED <<storedUser, lists>>
    /\ fwc' = [fwc EXCEPT ![c].pc = "returned", ![c].path = "fetched",
                          ![c].cachedItem = NoItem, ![c].result = data,
                          ![c].outcome = IF data = "undefined" THEN "none" ELSE outcome]
    /\ UNCHANGED online

\* the fetcher rejects: fall back to the item read at the start, or rethrow
FetcherRejects(c) ==
    /\ fwc[c].pc = "fetching"
    /\ \/ /\ HasFallback(fwc[c].cachedItem)
          /\ fwc' = [fwc EXCEPT ![c].pc = "returned", ![c].path = "fallback",
                                ![c].cachedItem = NoItem,
                                ![c].result = fwc[c].cachedItem.data]
       \/ /\ ~HasFallback(fwc[c].cachedItem)
          /\ fwc' = [fwc EXCEPT ![c].pc = "thrown", ![c].path = "error",
                                ![c].result = "error"]
    /\ UNCHANGED <<cacheStore, online, storedUser, lists>>

\* the browser goes offline or comes back
SetOnline ==
    /\ online' = ~online
    /\ UNCHANGED <<cacheStore, fwc, storedUser, lists>>

\* the cache key of the home feed
FeedKey == "home-feed-videos"

\* { videos: [] }
EmptyFeed == "[]"

\* { videos } mapped from the answer of mirror m
FeedOf(m) == IF m % 2 = 0 THEN "v1" ELSE "v2"

\* catch (e) { return { videos: [] }; } in the fetcher of getRecommendedVideos:
\* the fetcher resolves with the empty feed
FeedOnFailure(c, outcome) ==
    FetcherResolves(c, EmptyFeed, outcome)

\* getRecommendedVideos(): fetchWithCache('home-feed-videos', fetcher, 0) up to its
\* await; when the fetcher is called it calls apiFetch
GetRecommendedVideos ==
    /\ FetchWithCache(1, FeedKey, 0)
    /\ IF fwc'[1].pc = "fetching"
       THEN ApiFetch(1)
       ELSE UNCHANGED <<currentApiBase, mirrorOk, mirrorFail, api>>

\* a request of the feed's apiFetch settles: retry on the next mirror, or the
\* fetcher resolves (with the mapped videos, or with the empty feed when apiFetch
\* threw) and fetchWithCache stores what it resolved with
FeedRequestSettles(outcome) ==
    /\ fwc[1].pc = "fetching"
    /\ ApiSettle(1)
    /\ CASE api'[1].pc = "returned" -> FetcherResolves(1, FeedOf(api'[1].result), outcome)
         [] api'[1].pc = "thrown"   -> FeedOnFailure(1, outcome)
         [] OTHER -> UNCHANGED <<cacheStore, online, fwc, storedUser, lists>>

(***************************************************************************)
(* Strings, as sequences of characters                                     *)
(***************************************************************************)

Min(a, b) == IF a < b THEN a ELSE b

SliceAll(seq, n) == seq

\* Array.prototype.slice(0, n)
Slice(seq, n) == SubSeq(seq, 1, Min(n, Len(seq)))

\* Array.prototype.join(',')
RECURSIVE Join(_)
Join(fields) ==
    IF fields = <<>> THEN <<>>
    ELSE IF Len(fields) = 1 THEN fields[1]
    ELSE fields[1] \o <<",">> \o Join(Tail(fields))

\* if (cleaned.length > 30) cleaned = cleaned.substring(0, 30) + '...'
SAFE_STR_MAX == 30

\* safeStr: commas become spaces, then truncation
safeStr(s) ==
    IF s = <<>> THEN <<>>
    ELSE LET cleaned == [i \in 1 .. Len(s) |-> IF s[i] = "," THEN " " ELSE s[i]]
         IN  IF Len(cleaned) > SAFE_STR_MAX
             THEN SubSeq(cleaned, 1, SAFE_STR_MAX) \o <<".", ".", ".">>
             ELSE cleaned

\* const sanitize = (s: string) => s ? s.replace(/,/g, '') : ''
sanitize(s) == SelectSeq(s, LAMBDA ch : ch # ",")

\* String.prototype.split(sep) for a one-character separator
RECURSIVE SplitOn(_, _)
SplitOn(s, sep) ==
    IF \A i \in DOMAIN s : s[i] # sep THEN <<s>>
    ELSE LET p == CHOOSE i \in DOMAIN s : s[i] = sep /\ \A j \in 1 .. (i - 1) : s[j] # sep
         IN  <<SubSeq(s, 1, p - 1)>> \o SplitOn(SubSeq(s, p + 1, Len(s)), sep)

(***************************************************************************)
(* Mapping of API items: mapYoutubeiVideoToVideo                           *)
(***************************************************************************)

\* a field the item does not have
Undefined == "undefined"

\* the values an id field of an API item can have: missing, empty, an id
ItemIds == {Undefined, "", "a", "b"}

\* the thumbnails of an item: missing, an empty array, one url with a query part
ItemThumbs == {Undefined, "[]", "t?q"}

NullItem == [id |-> Undefined, videoId |-> Undefined, video_id |-> Undefined,
             thumbnails |-> "null"]

\* the items a response can carry, null included
Items ==
    [id : ItemIds, videoId : ItemIds, video_id : ItemIds, thumbnails : ItemThumbs]
        \cup {NullItem}

TruthyUnlessMissing(x) == x # Undefined

\* JavaScript truthiness of an id field: undefined and '' are falsy
Truthy(x) == x \notin {Undefined, ""}

\* a || b
Or(a, b) == IF Truthy(a) THEN a ELSE b

NullVideo == [id |-> "null"]

\* mapYoutubeiVideoToVideo(item): null, or the Video record (its id and thumbnailUrl)
mapYoutubeiVideoToVideo(item) ==
    IF item = NullItem THEN NullVideo
    ELSE LET videoId == Or(Or(item.id, item.videoId), item.video_id)
         IN  IF ~Truthy(videoId) THEN NullVideo
             ELSE [id |-> videoId,
                   thumbnailUrl |-> IF item.thumbnails \in {Undefined, "[]"}
                                    THEN <<"i.ytimg.com/vi/", videoId, "/hqdefault.jpg">>
                                    ELSE <<"t">>]

\* data.videos.map(mapYoutubeiVideoToVideo).filter(v => v !== null)
MapVideos(items) ==
    SelectSeq([i \in DOMAIN items |-> mapYoutubeiVideoToVideo(items[i])],
              LAMBDA v : v # NullVideo)

\* a call of a helper with its argument, before it runs
Call(fn, arg) == [fn |-> fn, arg |-> arg, done |-> FALSE]

\* the helper returns
Return(out) == [fn |-> calc.fn, arg |-> calc.arg, done |-> TRUE, out |-> out]

\* a caller maps one item
MapVideo ==
    /\ calc.fn = "mapYoutubeiVideoToVideo" /\ ~calc.done
    /\ calc' = Return(mapYoutubeiVideoToVideo(calc.arg))

\* the items of the short lists a caller maps
ListItems == {it \in Items : it.thumbnails \in {Undefined, "null"} /\ it.video_id # "b"}

\* a caller maps the videos of a response and filters the nulls
MapVideoList ==
    /\ calc.fn = "MapVideos" /\ ~calc.done
    /\ calc' = Return(MapVideos(calc.arg))

(***************************************************************************)
(* Number and duration formatting: formatJapaneseNumber, formatDuration,   *)
(* parseDuration                                                           *)
(***************************************************************************)

Digits == <<"0", "1", "2", "3", "4", "5", "6", "7", "8", "9">>

\* String(n) for a non-negative integer
RECURSIVE ToDigits(_)
ToDigits(n) == IF n < 10 THEN <<Digits[n + 1]>> ELSE ToDigits(n \div 10) \o <<Digits[(n % 10) + 1]>>

IsDigit(ch) == \E d \in 1 .. 10 : Digits[d] = ch

DigitValue(ch) == (CHOOSE d \in 1 .. 10 : Digits[d] = ch) - 1

\* the number of digits a string starts with
RECURSIVE LeadingDigits(_)
LeadingDigits(str) ==
    IF str = <<>> \/ ~IsDigit(Head(str)) THEN 0 ELSE 1 + LeadingDigits(Tail(str))

NaN == -1

\* parseInt(str, 10) for a string without sign or blanks: the digits it starts with
RECURSIVE ParseDigits(_, _)
ParseDigits(str, acc) ==
    IF str = <<>> THEN acc ELSE ParseDigits(Tail(str), acc * 10 + DigitValue(Head(str)))

parseInt(str) ==
    IF LeadingDigits(str) = 0 THEN NaN ELSE ParseDigits(SubSeq(str, 1, LeadingDigits(str)), 0)

PadNone(str) == str

\* String(n).padStart(2, '0')
PadStart2(str) == IF Len(str) < 2 THEN <<"0">> \o str ELSE str

\* num.toLocaleString() with comma grouping
toLocaleString(n) ==
    IF n < 1000 THEN ToDigits(n)
    ELSE ToDigits(n \div 1000) \o <<",">>
         \o [i \in 1 .. 3 |-> Digits[((n \div (CASE i = 1 -> 100 [] i = 2 -> 10 [] OTHER -> 1)) % 10) + 1]]

\* (num / unit).toFixed(1) in tenths, unit = 10 * tenth; a value that lies exactly
\* between two tenths goes the way its binary representation falls (tieUp)
ToFixed1(num, tenth, tieUp) ==
    LET q == num \div tenth
        r == num % tenth
    IN  IF 2 * r > tenth \/ (2 * r = tenth /\ tieUp) THEN q + 1 ELSE q

\* `${tenths/10 as X.Y}`.replace(/\.0$/, '') followed by the unit
WithUnit(tenths, unit) ==
    ToDigits(tenths \div 10)
        \o (IF tenths % 10 = 0 THEN <<>> ELSE <<".", Digits[(tenths % 10) + 1]>>)
        \o <<unit>>

\* the units: "oku" is 10^8, "man" is 10^4
OKU == 100000000

MAN == 10000

\* formatJapaneseNumber(num) for a non-negative integer
formatJapaneseNumber(num, tieUp) ==
    IF num >= OKU THEN WithUnit(ToFixed1(num, OKU \div 10, tieUp), "oku")
    ELSE IF num >= MAN THEN WithUnit(ToFixed1(num, MAN \div 10, tieUp), "man")
    ELSE toLocaleString(num)

\* formatDuration(totalSeconds)
formatDuration(totalSeconds) ==
    IF totalSeconds < 0 THEN <<"0", ":", "0", "0">>
    ELSE LET hours   == totalSeconds \div 3600
             minutes == (totalSeconds % 3600) \div 60
             seconds == totalSeconds % 60
         IN  IF hours > 0
             THEN ToDigits(hours) \o <<":">> \o PadStart2(ToDigits(minutes)) \o <<":">>
                      \o PadStart2(ToDigits(seconds))
             ELSE ToDigits(minutes) \o <<":">> \o PadStart2(ToDigits(seconds))

\* the optional group (\d+)unit of the ISO pattern at the start of rest
TakeGroup(rest, unit) ==
    LET k == LeadingDigits(rest)
    IN  IF k > 0 /\ Len(rest) > k /\ rest[k + 1] = unit
        THEN [val |-> parseInt(SubSeq(rest, 1, k)), rest |-> SubSeq(rest, k + 2, Len(rest))]
        ELSE [val |-> 0, rest |-> rest]

HasPT(iso) == \E p \in 1 .. (Len(iso) - 1) : iso[p] = "P" /\ iso[p + 1] = "T"

\* iso.match(/PT(?:(\d+)H)?(?:(\d+)M)?(?:(\d+)S)?/) turned into seconds
IsoSeconds(iso) ==
    LET p == CHOOSE i \in 1 .. (Len(iso) - 1) :
                 /\ iso[i] = "P" /\ iso[i + 1] = "T"
                 /\ \A j \in 1 .. (i - 1) : ~(iso[j] = "P" /\ iso[j + 1] = "T")
        h == TakeGroup(SubSeq(iso, p + 2, Len(iso)), "H")
        m == TakeGroup(h.rest, "M")
        sec == TakeGroup(m.rest, "S")
    IN  h.val * 3600 + m.val * 60 + sec.val

\* parseDuration(iso, text)
parseDuration(iso, text) ==
    IF iso # <<>> /\ HasPT(iso) THEN IsoSeconds(iso)
    ELSE IF text # <<>>
         THEN LET parts == [i \in DOMAIN SplitOn(text, ":") |-> parseInt(SplitOn(text, ":")[i])]
              IN  CASE Len(parts) = 3 -> parts[1] * 3600 + parts[2] * 60 + parts[3]
                    [] Len(parts) = 2 -> parts[1] * 60 + parts[2]
                    [] Len(parts) = 1 -> parts[1]
                    [] OTHER          -> 0
         ELSE 0

\* a view or subscriber count is formatted
FormatNumber ==
    /\ calc.fn = "formatJapaneseNumber" /\ ~calc.done
    /\ calc' = Return(formatJapaneseNumber(calc.arg.num, calc.arg.tieUp))

\* a duration is formatted for display and the text parsed back
FormatDuration ==
    /\ calc.fn = "formatDuration" /\ ~calc.done
    /\ calc' = Return([text   |-> formatDuration(calc.arg),
                       parsed |-> parseDuration(<<>>, formatDuration(calc.arg))])

(***************************************************************************)
(* Cloud sync client                                                       *)
(***************************************************************************)

\* const limit = 50 in syncData
SYNC_DATA_LIMIT == 50

\* const limit = 3 in syncRecent
SYNC_RECENT_LIMIT == 3

\* search.slice(0, 10) in syncRecent
SYNC_RECENT_SEARCH == 10

\* requests that may be issued to the sync backend in one run
MaxRequests == 4

\* a title longer than safeStr keeps
LongText == [i \in 1 .. (SAFE_STR_MAX + 1) |-> IF i = 2 THEN "," ELSE "x"]

\* the text of item i: one over-long text, texts with a comma, plain texts
TextOf(i) ==
    CASE i = 1     -> LongText
      [] i % 3 = 0 -> <<"a", ",", "b">>
      [] OTHER     -> <<"c">>

IdOf(i) == <<ToString(i)>>

\* no video: the id of no entry
NoId == <<>>

\* the two lists of HistoryProvider
HistoryKeys == {"videoHistory", "shortsHistory"}

VideoOf(i) == [id |-> IdOf(i), title |-> TextOf(i)]

ChannelOf(i) ==
    [id |-> IdOf(i), name |-> TextOf(i),
     avatarUrl |-> IF i % 2 = 0 THEN <<"u", ToString(i)>> ELSE <<>>]

\* the first n entries a list of the given key can hold
ListOf(key, n) ==
    [i \in 1 .. n |->
        CASE key = "searchHistory"      -> TextOf(i)
          [] key = "subscribedChannels" -> ChannelOf(i)
          [] OTHER                      -> VideoOf(i)]

U1 == [id |-> "u1", password |-> "pw"]

\* a stored user without the optional password field
U1NoPw == [id |-> "u1", password |-> ""]

CanSyncNoPassword(usr) == usr # NoUser

\* if (!user || !user.password) return
CanSync(usr) == usr # NoUser /\ usr.password # ""

\* if (x) params.x = x: a parameter is set only when its joined string is non-empty
NonEmptyParams(ps) == [n \in {m \in DOMAIN ps : Join(ps[m]) # <<>>} |-> ps[n]]

\* syncData: the comma-joined parameters built from the four lists
SyncDataParams(ls) ==
    LET search  == Slice(ls["searchHistory"], SYNC_DATA_LIMIT)
        history == Slice(ls["videoHistory"], SYNC_DATA_LIMIT)
        shorts  == Slice(ls["shortsHistory"], SYNC_DATA_LIMIT)
        subs    == Slice(ls["subscribedChannels"], SYNC_DATA_LIMIT)
    IN  NonEmptyParams(
          [n \in {"searchID", "histryid", "test", "shorthistryID", "shorthistrytext",
                  "subscriptionID", "subscriptionname"} |->
              CASE n = "searchID"         -> search
                [] n = "histryid"         -> [i \in DOMAIN history |-> history[i].id]
                [] n = "test"             -> [i \in DOMAIN history |-> sanitize(history[i].title)]
                [] n = "shorthistryID"    -> [i \in DOMAIN shorts |-> shorts[i].id]
                [] n = "shorthistrytext"  -> [i \in DOMAIN shorts |-> sanitize(shorts[i].title)]
                [] n = "subscriptionID"   -> [i \in DOMAIN subs |-> subs[i].id]
                [] OTHER                  -> [i \in DOMAIN subs |-> sanitize(subs[i].name)]])

Categories == <<"search", "history", "shorts", "subscription">>

ListKeyOf(cat) ==
    CASE cat = "search"  -> "searchHistory"
      [] cat = "history" -> "videoHistory"
      [] cat = "shorts"  -> "shortsHistory"
      [] OTHER           -> "subscribedChannels"

\* syncRecent: the parameters of the request for one category
SyncRecentParams(cat, ls) ==
    LET search  == Slice(ls["searchHistory"], SYNC_RECENT_SEARCH)
        history == Slice(ls["videoHistory"], SYNC_RECENT_LIMIT)
        shorts  == Slice(ls["shortsHistory"], SYNC_RECENT_LIMIT)
        subs    == Slice(ls["subscribedChannels"], SYNC_RECENT_LIMIT)
    IN  CASE cat = "search" ->
               [n \in {"searchID"} |-> [i \in DOMAIN search |-> safeStr(search[i])]]
          [] cat = "history" ->
               [n \in {"histryid", "test"} |->
                   IF n = "histryid" THEN [i \in DOMAIN history |-> history[i].id]
                   ELSE [i \in DOMAIN history |-> safeStr(history[i].title)]]
          [] cat = "shorts" ->
               [n \in {"shorthistryID", "shorthistrytext"} |->
                   IF n = "shorthistryID" THEN [i \in DOMAIN shorts |-> shorts[i].id]
                   ELSE [i \in DOMAIN shorts |-> safeStr(shorts[i].title)]]
          [] OTHER ->
               [n \in {"subscriptionID", "subscriptionname", "subscriptionimage"} |->
                   CASE n = "subscriptionID"   -> [i \in DOMAIN subs |-> subs[i].id]
                     [] n = "subscriptionname" -> [i \in DOMAIN subs |-> safeStr(subs[i].name)]
                     [] OTHER                  -> [i \in DOMAIN subs |-> subs[i].avatarUrl]]

\* syncRecent: the first category from position k on whose list is not empty, or 5
RECURSIVE NextStage(_, _)
NextStage(k, ls) ==
    IF k > Len(Categories) THEN k
    ELSE IF Len(ls[ListKeyOf(Categories[k])]) > 0 THEN k
    ELSE NextStage(k + 1, ls)

\* syncAction: the parameters for the single item of the payload
SyncActionParams(payload) ==
    CASE payload.category = "search" ->
           [n \in {"searchID"} |-> <<safeStr(payload.item)>>]
      [] payload.category = "history" ->
           [n \in {"histryid", "test"} |->
               IF n = "histryid" THEN <<payload.item.id>> ELSE <<safeStr(payload.item.title)>>]
      [] payload.category = "shorts" ->
           [n \in {"shorthistryID", "shorthistrytext"} |->
               IF n = "shorthistryID" THEN <<payload.item.id>>
               ELSE <<safeStr(payload.item.title)>>]
      [] OTHER ->
           [n \in {"subscriptionID", "subscriptionname"}
                   \cup (IF payload.item.avatarUrl # <<>> THEN {"subscriptionimage"} ELSE {}) |->
               CASE n = "subscriptionID"   -> <<payload.item.id>>
                 [] n = "subscriptionname" -> <<safeStr(payload.item.name)>>
                 [] OTHER                  -> <<payload.item.avatarUrl>>]

\* buildUrl('writealldeta', params) handed to smartFetch
Request(fn, usr, params, silent, cat) ==
    [action |-> "writealldeta", fn |-> fn, userid |-> usr.id, pw |-> usr.password,
     params |-> params, silent |-> silent, category |-> cat, at |-> now,
     since |-> hist.lastTrigger, src |-> lists]

NoTimer == -1

ClearTimeoutNoop(ts, ref) == ts

\* clearTimeout(syncTimeoutRef.current)
ClearTimeout(ts, ref) == {t \in ts : t.id # ref}

TimerDue == \E t \in timers : t.deadline <= now

\* bookkeeping of a page whose mount effect has run: nothing triggered, nothing pulled
NoHist ==
    [lastTrigger |-> -1, firstTrigger |-> -1, calls |-> 0, fired |-> 0,
     trigUser |-> NoUser, actionAuth |-> 0, actionAnon |-> 0,
     mounted |-> TRUE, loads |-> 1, cloud |-> <<>>, merges |-> 0,
     logoutCache |-> [k \in CacheKeys |-> NoItem],
     added |-> [k \in HistoryKeys |-> NoId], ignored |-> 0]

\* the try/catch of syncAction, syncData and syncRecent: the promise never rejects
PromiseAfterCatch(outcome) == "resolved"

\* how an awaited smartFetch can end: 2xx, another status, a rejection
Outcomes == {"ok", "non2xx", "reject"}

\* logout: setUser(null); localStorage.removeItem('xerox_user'); hist keeps the cache
\* entries as they were when the user logged out
Logout ==
    /\ user # NoUser
    /\ user' = NoUser
    /\ storedUser' = NoUser
    /\ hist' = [hist EXCEPT !.logoutCache = cacheStore]
    /\ UNCHANGED <<lists, timers, syncTimeoutRef, requests, pending, settled>>

\* the body of syncData(silent) as run with the `user` its closure captured
RunSyncData(usr, silent) ==
    IF CanSync(usr)
    THEN /\ requests' = Append(requests,
                               Request("syncData", usr, SyncDataParams(lists), silent, "all"))
         /\ pending' = Append(pending, [fn |-> "syncData", silent |-> silent, stage |-> 0,
                                        usr |-> usr, snap |-> lists])
         /\ UNCHANGED settled
    ELSE /\ settled' = settled \cup {<<"syncData", "none", "resolved">>}
         /\ UNCHANGED <<requests, pending>>

\* syncData(silent); a direct caller passes no argument (silent = false), the
\* debounce timer passes true
SyncData(silent) ==
    /\ Len(requests) < MaxRequests
    /\ RunSyncData(user, silent)
    /\ UNCHANGED <<user, storedUser, lists, timers, syncTimeoutRef, hist>>

\* the body of triggerAutoSync: return without a user, else clear the pending timer
\* and set a new one
DebounceRestart ==
    \/ /\ user = NoUser
       /\ UNCHANGED <<timers, syncTimeoutRef, hist>>
    \/ /\ user # NoUser
       /\ LET kept == IF syncTimeoutRef # NoTimer
                      THEN ClearTimeout(timers, syncTimeoutRef) ELSE timers
              id   == now + Debounce
              more == \E t \in timers : t.id = syncTimeoutRef
          IN  /\ timers' = kept \cup {[id |-> id, deadline |-> id, usr |-> user]}
              /\ syncTimeoutRef' = id
              /\ hist' = [hist EXCEPT
                             !.lastTrigger = now,
                             !.firstTrigger = IF more THEN @ ELSE now,
                             !.calls = IF more THEN Min(@ + 1, 2) ELSE 1,
                             !.fired = 0,
                             !.trigUser = user]

\* triggerAutoSync: restart the debounce timer
TriggerAutoSync ==
    /\ ~TimerDue
    /\ DebounceRestart
    /\ UNCHANGED <<user, storedUser, lists, requests, pending, settled>>

\* the timer callback runs: syncData(true)
TimerFires ==
    /\ Len(requests) < MaxRequests
    /\ \E t \in timers :
          /\ t.deadline <= now
          /\ timers' = timers \ {t}
          /\ RunSyncData(t.usr, TRUE)
          /\ hist' = [hist EXCEPT !.fired = IF CanSync(t.usr) THEN @ + 1 ELSE @]
    /\ UNCHANGED <<user, storedUser, lists, syncTimeoutRef>>

PayloadOf(cat, i) ==
    [category |-> cat,
     item |-> CASE cat = "search"       -> TextOf(i)
                [] cat = "subscription" -> ChannelOf(i)
                [] OTHER                -> VideoOf(i)]

\* the items a user action can carry
PayloadItems == 1 .. 2

\* syncAction calls in one run
MaxActions == 3

\* syncAction(payload); hist counts the calls by whether a user with a password
\* is logged in, h is the bookkeeping of the caller
SyncActionCall(payload, h) ==
    /\ hist.actionAuth + hist.actionAnon < MaxActions
    /\ \/ /\ CanSync(user)
          /\ requests' = Append(requests,
                                Request("syncAction", user, SyncActionParams(payload), TRUE,
                                        payload.category))
          /\ pending' = Append(pending, [fn |-> "syncAction", silent |-> TRUE, stage |-> 0,
                                         usr |-> user, snap |-> lists])
          /\ UNCHANGED settled
       \/ /\ ~CanSync(user)
          /\ settled' = settled \cup {<<"syncAction", "none", "resolved">>}
          /\ UNCHANGED <<requests, pending>>
    /\ hist' = IF user # NoUser /\ user.password # ""
               THEN [h EXCEPT !.actionAuth = @ + 1]
               ELSE [h EXCEPT !.actionAnon = @ + 1]

\* a user action whose provider calls syncAction and changes nothing else here
SyncAction(payload) ==
    /\ SyncActionCall(payload, hist)
    /\ UNCHANGED <<user, storedUser, lists, timers, syncTimeoutRef>>

\* syncRecent() up to its first await
SyncRecent ==
    /\ Len(requests) < MaxRequests
    /\ LET stage == NextStage(1, lists)
       IN  \/ /\ CanSync(user)
              /\ stage <= Len(Categories)
              /\ requests' = Append(requests,
                                    Request("syncRecent", user,
                                            SyncRecentParams(Categories[stage], lists),
                                            FALSE, Categories[stage]))
              /\ pending' = Append(pending, [fn |-> "syncRecent", silent |-> FALSE,
                                             stage |-> stage, usr |-> user, snap |-> lists])
              /\ UNCHANGED settled
           \/ /\ ~(CanSync(user) /\ stage <= Len(Categories))
              /\ settled' = settled \cup {<<"syncRecent", "none", "resolved">>}
              /\ UNCHANGED <<requests, pending>>
    /\ UNCHANGED <<user, storedUser, lists, timers, syncTimeoutRef, hist>>

RemoveAt(seq, k) == SubSeq(seq, 1, k - 1) \o SubSeq(seq, k + 1, Len(seq))

\* the smartFetch awaited by syncAction or syncData settles
RequestSettles(k, outcome) ==
    /\ k \in 1 .. Len(pending)
    /\ pending[k].fn \in {"syncAction", "syncData"}
    /\ pending' = RemoveAt(pending, k)
    /\ settled' = settled \cup {<<pending[k].fn, outcome, PromiseAfterCatch(outcome)>>}
    /\ UNCHANGED <<user, storedUser, lists, timers, syncTimeoutRef, requests, hist>>

\* a smartFetch awaited by syncRecent settles: the next non-empty category is sent,
\* or the function ends (all sent, or a rejection caught)
SyncRecentContinues(k, outcome) ==
    /\ k \in 1 .. Len(pending)
    /\ pending[k].fn = "syncRecent"
    /\ LET p     == pending[k]
           stage == NextStage(p.stage + 1, p.snap)
       IN  \/ /\ outcome = "reject" \/ stage > Len(Categories)
              /\ pending' = RemoveAt(pending, k)
              /\ settled' = settled \cup {<<p.fn, outcome, PromiseAfterCatch(outcome)>>}
              /\ UNCHANGED requests
           \/ /\ outcome # "reject"
              /\ stage <= Len(Categories)
              /\ Len(requests) < MaxRequests
              /\ requests' = Append(requests,
                                    [Request("syncRecent", p.usr,
                                             SyncRecentParams(Categories[stage], p.snap),
                                             FALSE, Categories[stage])
                                       EXCEPT !.src = p.snap])
              /\ pending' = [pending EXCEPT ![k].stage = stage]
              /\ UNCHANGED settled
    /\ UNCHANGED <<user, storedUser, lists, timers, syncTimeoutRef, hist>>

(***************************************************************************)
(* App load and pull-and-merge: the mount effect and fetchUserDataInternal *)
(***************************************************************************)

\* page loads in one run
MaxLoads == 3

\* an item of userData.data as the backend returns it: the id and the text that
\* writealldeta stored for it (search items carry the word as text and no id)
CloudItem(cat, i) ==
    [category |-> cat,
     id   |-> IF cat = "search" THEN <<>> ELSE IdOf(i),
     text |-> sanitize(TextOf(i))]

\* the bodies readalluserdate can answer with
CloudResponses ==
    { <<>>,
      <<CloudItem("histry", 1), CloudItem("histry", 3), CloudItem("shorthistry", 2),
        CloudItem("subscription", 2), CloudItem("subscription", 3), CloudItem("search", 2)>>,
      <<CloudItem("histry", 3), CloudItem("subscription", 1)>>,
      <<CloudItem("histry", 2), [CloudItem("histry", 2) EXCEPT !.text = <<>>],
        CloudItem("shorthistry", 1), CloudItem("shorthistry", 3)>> }

\* the list a cloud category is merged into
CloudListKey(cat) ==
    CASE cat = "search"      -> "searchHistory"
      [] cat = "histry"      -> "videoHistory"
      [] cat = "shorthistry" -> "shortsHistory"
      [] OTHER               -> "subscribedChannels"

\* the record rebuilt from a cloud item when there is no local one
SparseRecord(item) ==
    IF item.category = "subscription"
    THEN [id |-> item.id,
          name |-> IF item.text = <<>> THEN <<"Unknown Channel">> ELSE item.text,
          avatarUrl |-> <<"default_64.svg">>]
    ELSE [id |-> item.id,
          title |-> IF item.text = <<>> THEN <<"No Title">> ELSE item.text]

NoRecord == [id |-> <<>>]

\* new Map(local.map(v => [v.id, v])).get(id): the last local record with the id
LocalGet(local, id) ==
    IF \E i \in DOMAIN local : local[i].id = id
    THEN local[CHOOSE i \in DOMAIN local :
                  /\ local[i].id = id
                  /\ \A j \in DOMAIN local : local[j].id = id => j <= i]
    ELSE NoRecord

PreferCloud(local, item) == SparseRecord(item)

\* local || { id: item.id, title: item.text || 'No Title', ... }
PreferLocal(local, item) == IF local # NoRecord THEN local ELSE SparseRecord(item)

\* Map.prototype.set on a map kept as its values in insertion order
MapSet(m, v) ==
    IF \E i \in DOMAIN m : m[i].id = v.id
    THEN [i \in DOMAIN m |-> IF m[i].id = v.id THEN v ELSE m[i]]
    ELSE Append(m, v)

\* cloudItems.forEach for one category: the merged list, in insertion order
RECURSIVE MergeCategory(_, _, _, _)
MergeCategory(m, items, cat, local) ==
    IF items = <<>> THEN m
    ELSE LET item == Head(items)
         IN  IF item.category # cat THEN MergeCategory(m, Tail(items), cat, local)
             ELSE IF cat = "search"
                  THEN MergeCategory(Append(m, item.text), Tail(items), cat, local)
                  ELSE MergeCategory(MapSet(m, PreferLocal(LocalGet(local, item.id), item)),
                                     Tail(items), cat, local)

\* step 4 of fetchUserDataInternal: a list is replaced when its merged list is not empty
MergeCloud(ls, items) ==
    [k \in ListKeys |->
        LET cat    == CHOOSE c \in {"search", "histry", "shorthistry", "subscription"} :
                          CloudListKey(c) = k
            merged == MergeCategory(<<>>, items, cat, ls[k])
        IN  IF Len(merged) > 0 THEN merged ELSE ls[k]]

\* if (storedUser) in the mount effect
HasStoredUserNever(stored) == FALSE

HasStoredUser(stored) == stored # NoUser

\* the readalluserdate request of fetchUserDataInternal
PullRequest(usr) ==
    [action |-> "readalluserdate", fn |-> "fetchUserData", userid |-> usr.id,
     pw |-> usr.password, params |-> <<>>, silent |-> TRUE, category |-> "all",
     at |-> now, since |-> hist.loads, src |-> EmptyLists]

\* the page is loaded again: the JavaScript state starts over, localStorage stays
PageLoad ==
    /\ hist.loads < MaxLoads
    /\ user' = NoUser
    /\ timers' = {} /\ syncTimeoutRef' = NoTimer
    /\ pending' = <<>>
    /\ hist' = [hist EXCEPT !.mounted = FALSE, !.loads = @ + 1]
    /\ UNCHANGED <<storedUser, lists, requests, settled>>

\* the mount effect of AuthProvider: restore the user and pull
\* (fetchUserDataInternal returns at once without an id or a password)
Mount ==
    /\ ~hist.mounted
    /\ hist' = [hist EXCEPT !.mounted = TRUE]
    /\ IF HasStoredUser(storedUser)
       THEN /\ user' = storedUser
            /\ IF CanSync(storedUser)
               THEN /\ requests' = Append(requests, PullRequest(storedUser))
                    /\ pending' = Append(pending, [fn |-> "fetchUserData", silent |-> TRUE,
                                                   stage |-> 0, usr |-> storedUser,
                                                   snap |-> EmptyLists])
               ELSE UNCHANGED <<requests, pending>>
       ELSE UNCHANGED <<user, requests, pending>>
    /\ UNCHANGED <<storedUser, lists, timers, syncTimeoutRef, settled>>

\* how a pull can end: a rejection, a non-2xx status, a body without
\* status 'success', or a body with data
PullOutcomes == {"reject", "non2xx", "failure", "success"}

\* the awaited readalluserdate settles: merge on success; with isAutoLoad the
\* error is logged and swallowed
PullSettles(k, outcome, items) ==
    /\ k \in 1 .. Len(pending)
    /\ pending[k].fn = "fetchUserData"
    /\ pending' = RemoveAt(pending, k)
    /\ settled' = settled \cup {<<"fetchUserData", outcome, "resolved">>}
    /\ IF outcome = "success"
       THEN /\ lists' = MergeCloud(lists, items)
            /\ hist' = [hist EXCEPT !.cloud = items, !.merges = Min(@ + 1, 2)]
       ELSE UNCHANGED <<lists, hist>>
    /\ UNCHANGED <<user, storedUser, timers, syncTimeoutRef, requests>>

\* login(id, pw) up to its await: fetchUserDataInternal(id, pw) returns at once
\* without an id or a password, and login then stores the user; otherwise the
\* readalluserdate request is awaited
Login(usr) ==
    /\ user = NoUser
    /\ \A i \in DOMAIN pending : pending[i].fn # "login"
    /\ Len(requests) < MaxRequests
    /\ IF CanSync(usr)
       THEN /\ requests' = Append(requests, [PullRequest(usr) EXCEPT !.fn = "login"])
            /\ pending' = Append(pending, [fn |-> "login", silent |-> FALSE, stage |-> 0,
                                           usr |-> usr, snap |-> EmptyLists])
            /\ UNCHANGED <<user, storedUser, settled>>
       ELSE /\ user' = usr
            /\ storedUser' = usr
            /\ settled' = settled \cup {<<"login", "none", "resolved">>}
            /\ UNCHANGED <<requests, pending>>
    /\ UNCHANGED <<lists, timers, syncTimeoutRef, hist>>

\* the request awaited by login settles: a rejection and a non-2xx status are
\* rethrown (isAutoLoad is false) and login rejects; a body without status
\* 'success' skips the merge; in both remaining cases login stores the user
LoginSettles(k, outcome, items) ==
    /\ k \in 1 .. Len(pending)
    /\ pending[k].fn = "login"
    /\ pending' = RemoveAt(pending, k)
    /\ IF outcome \in {"reject", "non2xx"}
       THEN /\ settled' = settled \cup {<<"login", outcome, "rejected">>}
            /\ UNCHANGED <<user, storedUser, lists>>
       ELSE /\ settled' = settled \cup {<<"login", outcome, "resolved">>}
            /\ user' = pending[k].usr
            /\ storedUser' = pending[k].usr
            /\ lists' = IF outcome = "success" THEN MergeCloud(lists, items) ELSE lists
    /\ UNCHANGED <<timers, syncTimeoutRef, requests, hist>>

(***************************************************************************)
(* Local deletions: HistoryProvider, SearchHistoryProvider,                *)
(* SubscriptionProvider                                                    *)
(***************************************************************************)

\* prev.filter(v => !ids.includes(v.id))
WithoutIds(seq, ids) == SelectSeq(seq, LAMBDA v : v.id \notin ids)

\* prev.filter(t => !terms.includes(t))
WithoutTerms(seq, terms) == SelectSeq(seq, LAMBDA t : t \notin terms)

\* clearHistory: both histories are emptied and written back by their effects
ClearHistory ==
    /\ lists' = [lists EXCEPT !["videoHistory"] = <<>>, !["shortsHistory"] = <<>>]
    /\ UNCHANGED <<user, storedUser, timers, syncTimeoutRef, requests, pending, settled, hist>>

\* removeVideosFromHistory(videoIds)
RemoveVideosFromHistory(ids) ==
    /\ lists' = [lists EXCEPT !["videoHistory"] = WithoutIds(@, ids),
                              !["shortsHistory"] = WithoutIds(@, ids)]
    /\ UNCHANGED <<user, storedUser, timers, syncTimeoutRef, requests, pending, settled, hist>>

\* unsubscribe(channelId) of the provider that syncs with syncAction: the write-back
\* effect only stores the list
Unsubscribe(id) ==
    /\ lists' = [lists EXCEPT !["subscribedChannels"] = WithoutIds(@, {id})]
    /\ UNCHANGED <<user, storedUser, timers, syncTimeoutRef, requests, pending, settled, hist>>

\* unsubscribe(channelId) of the provider whose write-back effect stores the list and
\* calls triggerAutoSync
UnsubscribeAutoSync(id) ==
    /\ ~TimerDue
    /\ lists' = [lists EXCEPT !["subscribedChannels"] = WithoutIds(@, {id})]
    /\ DebounceRestart
    /\ UNCHANGED <<user, storedUser, requests, pending, settled>>

\* the write-back effect of SearchHistoryProvider: store the list, then
\* if (!isGuestMode) triggerAutoSync()
SearchHistoryEffect(newList, isGuestMode) ==
    /\ ~TimerDue
    /\ lists' = [lists EXCEPT !["searchHistory"] = newList]
    /\ IF isGuestMode THEN UNCHANGED <<timers, syncTimeoutRef, hist>> ELSE DebounceRestart
    /\ UNCHANGED <<user, storedUser, requests, pending, settled>>

\* removeSearchTerms(terms)
RemoveSearchTerms(terms, isGuestMode) ==
    SearchHistoryEffect(WithoutTerms(lists["searchHistory"], terms), isGuestMode)

\* clearSearchHistory()
ClearSearchHistory(isGuestMode) == SearchHistoryEffect(<<>>, isGuestMode)

\* time passes; a due timer callback runs before the clock moves on
Tick(max) ==
    /\ now < max
    /\ ~TimerDue
    /\ now' = now + 1

(***************************************************************************)
(* HistoryProvider: addVideoToHistory, addShortToHistory                   *)
(***************************************************************************)

\* const MAX_HISTORY_LENGTH = 200
MAX_HISTORY_LENGTH == 200

\* adds made in guest mode in one run
MaxIgnored == 1

\* adds made outside guest mode in one run
MaxAdds == 2

AddedFirstUncapped(prev, video) ==
    IF Len(prev) > 0 /\ prev[1].id = video.id
    THEN prev
    ELSE <<video>> \o SelectSeq(prev, LAMBDA v : v.id # video.id)

\* the updater of setHistory and setShortsHistory
AddedFirst(prev, video) ==
    IF Len(prev) > 0 /\ prev[1].id = video.id
    THEN prev
    ELSE LET newHistory == <<video>> \o SelectSeq(prev, LAMBDA v : v.id # video.id)
         IN  SubSeq(newHistory, 1, Min(Len(newHistory), MAX_HISTORY_LENGTH))

\* addVideoToHistory and addShortToHistory: the list under key, the syncAction
\* category; hist keeps the video added last and counts the calls guest mode ignores
AddToHistory(key, category, video, isGuestMode) ==
    IF isGuestMode
    THEN /\ hist.ignored < MaxIgnored
         /\ hist' = [hist EXCEPT !.ignored = @ + 1]
         /\ UNCHANGED <<user, storedUser, lists, timers, syncTimeoutRef, requests, pending,
                        settled>>
    ELSE /\ hist.actionAuth + hist.actionAnon < MaxAdds
         /\ lists' = [lists EXCEPT ![key] = AddedFirst(@, video)]
         /\ SyncActionCall([category |-> category, item |-> video],
                           [hist EXCEPT !.added[key] = video.id])
         /\ UNCHANGED <<user, storedUser, timers, syncTimeoutRef>>

\* addVideoToHistory(video)
AddVideoToHistory(video, isGuestMode) ==
    AddToHistory("videoHistory", "history", video, isGuestMode)

\* addShortToHistory(video)
AddShortToHistory(video, isGuestMode) ==
    AddToHistory("shortsHistory", "shorts", video, isGuestMode)

(***************************************************************************)
(* VideoPlayerPage: comments                                               *)
(***************************************************************************)

VideoIds == {"a", "b", "c"}

CommentSorts == {"top", "newest"}

\* getComments requests awaited together
MaxInFlight == 2

\* batches of comments shown together
MaxBatches == 3

\* a getComments request awaited by the page; live is the isMounted flag of the
\* effect that made it (only consulted for the initial load)
CommentRequest(kind, video, sort) ==
    [kind |-> kind, video |-> video, sort |-> sort, live |-> TRUE]

\* the comments of one response, named by the request they answer
Batch(r) == [video |-> r.video, sort |-> r.sort]

\* how getComments can end: with a continuation token, without one, rejected
CommentOutcomes == {"more", "last", "reject"}

\* the page just opened on a video: the effect has reset the state and
\* loadComments awaits getComments(videoId, 'top')
WatchOpened(v, inflight) ==
    [videoId |-> v, commentSort |-> "top", comments |-> <<>>, continuation |-> FALSE,
     isFetchingMoreComments |-> FALSE,
     inflight |-> inflight \cup {CommentRequest("initial", v, "top")}]

\* videoId changes: the cleanup of the previous effect sets its isMounted to false,
\* the effect resets the comment state and starts loadComments
WatchNavigate(v) ==
    /\ v # watch.videoId
    /\ Cardinality(watch.inflight) < MaxInFlight
    /\ watch' = [WatchOpened(v, {IF r.kind = "initial" THEN [r EXCEPT !.live = FALSE] ELSE r :
                                     r \in watch.inflight})
                   EXCEPT !.isFetchingMoreComments = watch.isFetchingMoreComments]

\* loadComments ends: if (isMounted) { setComments; setCommentsContinuation }
LoadCommentsSettles(r, outcome) ==
    /\ r \in watch.inflight /\ r.kind = "initial"
    /\ watch' = IF outcome # "reject" /\ r.live
                THEN [watch EXCEPT !.inflight = @ \ {r},
                                   !.comments = <<Batch(r)>>,
                                   !.continuation = (outcome = "more")]
                ELSE [watch EXCEPT !.inflight = @ \ {r}]

\* handleCommentSortChange(newSort)
HandleCommentSortChange(newSort) ==
    /\ newSort # watch.commentSort
    /\ Cardinality(watch.inflight) < MaxInFlight
    /\ watch' = [watch EXCEPT !.commentSort = newSort,
                              !.comments = <<>>,
                              !.continuation = FALSE,
                              !.inflight = @ \cup {CommentRequest("sort", watch.videoId, newSort)}]

\* the .then of handleCommentSortChange: setComments(res.comments)
SortSettles(r, outcome) ==
    /\ r \in watch.inflight /\ r.kind = "sort"
    /\ watch' = IF outcome # "reject"
                THEN [watch EXCEPT !.inflight = @ \ {r},
                                   !.comments = <<Batch(r)>>,
                                   !.continuation = (outcome = "more")]
                ELSE [watch EXCEPT !.inflight = @ \ {r}]

\* fetchMoreComments()
FetchMoreComments ==
    /\ watch.continuation /\ ~watch.isFetchingMoreComments
    /\ Cardinality(watch.inflight) < MaxInFlight
    /\ Len(watch.comments) < MaxBatches
    /\ watch' = [watch EXCEPT !.isFetchingMoreComments = TRUE,
                              !.inflight = @ \cup {CommentRequest("more", watch.videoId,
                                                                  watch.commentSort)}]

\* fetchMoreComments after its await: setComments(prev => [...prev, ...res.comments])
MoreSettles(r, outcome) ==
    /\ r \in watch.inflight /\ r.kind = "more"
    /\ watch' = IF outcome # "reject"
                THEN [watch EXCEPT !.inflight = @ \ {r},
                                   !.comments = Append(@, Batch(r)),
                                   !.continuation = (outcome = "more"),
                                   !.isFetchingMoreComments = FALSE]
                ELSE [watch EXCEPT !.inflight = @ \ {r},
                                   !.isFetchingMoreComments = FALSE]

(***************************************************************************)
(* HomePage: the recommendation feed                                       *)
(***************************************************************************)

\* const MAX_FEED_VIDEOS = 1200
MAX_FEED_VIDEOS == 1200

\* the pages loadMore can ask for
MaxPages == 3

\* the most videos one answer of getXraiRecommendations holds
MaxAnswer == 2

\* what getXraiRecommendations can resolve with: any list of videos, named by id
Answers == UNION {[1 .. n -> VideoIds] : n \in 0 .. MaxAnswer}

NoFeedCache == [feed |-> <<>>]

\* the effect "Save to Cache when feed updates": the first page is written to
\* localStorage home_feed_cache when it is shown
SaveFeedCache(h) ==
    IF Len(h.feed) > 0 /\ h.page = 1 /\ ~h.isLoading
    THEN [h EXCEPT !.cache = [feed |-> h.feed]]
    ELSE h

SeqIds(seq) == {seq[i] : i \in DOMAIN seq}

\* the state of a home page whose component has just been created
NewHome(cache) ==
    [feed |-> <<>>, seen |-> {}, page |-> 1, isLoading |-> TRUE, isFetchingMore |-> FALSE,
     hasNextPage |-> TRUE, cache |-> cache, inflight |-> {}]

\* loadRecommendations(pageNum, forceRefresh) up to its await, on state h;
\* fresh says whether the cached feed is younger than CACHE_DURATION
LoadRecommendations(h, pageNum, forceRefresh, fresh) ==
    IF Len(h.feed) >= MAX_FEED_VIDEOS
    THEN [h EXCEPT !.hasNextPage = FALSE, !.isFetchingMore = FALSE]
    ELSE IF pageNum = 1 /\ ~forceRefresh /\ fresh /\ Len(h.cache.feed) > 0
    THEN [h EXCEPT !.feed = h.cache.feed,
                   !.seen = @ \cup SeqIds(h.cache.feed),
                   !.isLoading = FALSE]
    ELSE [h EXCEPT !.isLoading = IF pageNum = 1 THEN TRUE ELSE @,
                   !.isFetchingMore = IF pageNum = 1 THEN @ ELSE TRUE,
                   !.inflight = @ \cup {pageNum}]

\* the home page is opened: the mount effect calls loadRecommendations(1);
\* requests of an earlier visit are gone with its component
HomeMount(fresh) ==
    home' = SaveFeedCache(LoadRecommendations(NewHome(home.cache), 1, FALSE, fresh))

\* handleRefresh()
HandleRefresh ==
    home' = SaveFeedCache(
                LoadRecommendations([home EXCEPT !.page = 1, !.feed = <<>>, !.seen = {},
                                                 !.hasNextPage = TRUE, !.cache = NoFeedCache],
                                    1, TRUE, FALSE))

\* loadMore()
LoadMore ==
    /\ ~home.isFetchingMore /\ ~home.isLoading /\ home.hasNextPage
    /\ Len(home.feed) < MAX_FEED_VIDEOS
    /\ home.page < MaxPages
    /\ home' = SaveFeedCache(
                   LoadRecommendations([home EXCEPT !.page = @ + 1], home.page + 1, FALSE, FALSE))

\* combined.slice(0, MAX_FEED_VIDEOS) when combined reaches the cap
Capped(h, combined) ==
    IF Len(combined) >= MAX_FEED_VIDEOS
    THEN [h EXCEPT !.hasNextPage = FALSE, !.feed = SubSeq(combined, 1, MAX_FEED_VIDEOS)]
    ELSE [h EXCEPT !.feed = combined]

\* newVideos.filter(v => !seenIdsRef.current.has(v.id)): the set is read while the
\* answer is filtered and the ids are added afterwards
UniqueNew(newVideos, seen) == SelectSeq(newVideos, LAMBDA v : v \notin seen)

\* loadRecommendations after its await: the answer for page pageNum arrives
\* (or the request is rejected), then the finally block
RecommendationsSettle(pageNum, newVideos, rejected) ==
    /\ pageNum \in home.inflight
    /\ LET h == [home EXCEPT !.inflight = @ \ {pageNum},
                             !.isLoading = FALSE, !.isFetchingMore = FALSE]
           unique == UniqueNew(newVideos, home.seen)
           seen == [h EXCEPT !.seen = @ \cup SeqIds(unique)]
       IN  home' = SaveFeedCache(
                       IF rejected THEN h
                       ELSE IF Len(newVideos) = 0 /\ pageNum > 1
                       THEN [h EXCEPT !.hasNextPage = FALSE]
                       ELSE IF pageNum = 1 THEN [seen EXCEPT !.feed = unique]
                       ELSE Capped(seen, home.feed \o unique))

(***************************************************************************)
(* Specifications                                                          *)
(***************************************************************************)

IdlePages ==
    /\ watch = WatchOpened("a", {})
    /\ home = NewHome(NoFeedCache)

IdleCache ==
    /\ cacheStore = [k \in CacheKeys |-> NoItem]
    /\ online = TRUE
    /\ fwc = [c \in Fetchers |-> IdleFetch]

IdleSync ==
    /\ user = NoUser
    /\ timers = {}
    /\ syncTimeoutRef = NoTimer
    /\ requests = <<>>
    /\ pending = <<>>
    /\ settled = {}
    /\ hist = NoHist

IdleStore ==
    /\ storedUser = NoUser
    /\ lists = EmptyLists

\* ---- apiFetch against the mirrors
InitApiSpec == InitApi /\ IdleCache /\ IdleSync /\ IdleStore /\ now = 0 /\ IdlePages

NextApi ==
    /\ \E c \in ApiCalls : ApiFetch(c) \/ ApiSettle(c)
    /\ UNCHANGED <<calc, cacheVars, storeVars, syncVars, now, pageVars>>

SpecApi == InitApiSpec /\ [][NextApi]_vars

\* ---- apiFetch calls made one after the other, every mirror failing in its own way
InitSweepSpec ==
    /\ currentApiBase \in API_MIRRORS
    /\ mirrorOk \in [API_MIRRORS -> BOOLEAN]
    /\ mirrorFail \in [API_MIRRORS -> FailureKinds]
    /\ api = [c \in ApiCalls |-> IdleCall]
    /\ calc = NoCalc
    /\ IdleCache /\ IdleSync /\ IdleStore
    /\ now = 0 /\ IdlePages

NextSweep ==
    /\ ApiFetch(1) \/ ApiSettle(1)
    /\ UNCHANGED <<calc, cacheVars, storeVars, syncVars, now, pageVars>>

SpecSweep == InitSweepSpec /\ [][NextSweep]_vars

\* ---- fetchWithCache over localStorage
\* a browser profile with a logged-in user and some history
SomeLists == [k \in ListKeys |-> ListOf(k, 2)]

InitCacheSpec ==
    /\ IdleApi /\ IdleCache /\ IdleSync
    /\ storedUser \in {NoUser, U1}
    /\ lists = SomeLists
    /\ now = 0 /\ IdlePages

\* calls are made one after the other here
NextCache ==
    \/ /\ \E key \in CacheKeys, ttl \in Ttls : FetchWithCache(1, key, ttl)
       /\ UNCHANGED <<apiVars, syncVars, now, pageVars>>
    \/ /\ \E data \in Values, outcome \in SetOutcomes : FetcherResolves(1, data, outcome)
       /\ UNCHANGED <<apiVars, syncVars, now, pageVars>>
    \/ /\ FetcherRejects(1)
       /\ UNCHANGED <<apiVars, syncVars, now, pageVars>>
    \/ /\ SetOnline
       /\ UNCHANGED <<apiVars, syncVars, now, pageVars>>
    \/ /\ Tick(MaxCacheAge)
       /\ UNCHANGED <<apiVars, cacheVars, storeVars, syncVars, pageVars>>

SpecCache == InitCacheSpec /\ [][NextCache]_vars

\* ---- bulk sync: syncData and syncRecent
\* list lengths below, between and above the caps 3, 10 and 50
ListLens == <<0, 2, 11, 51>>

\* profile j gives the four lists the lengths of ListLens rotated by j
ProfileLists(j) ==
    [k \in ListKeys |->
        ListOf(k, ListLens[((j + (CHOOSE c \in 1 .. 4 : ListKeyOf(Categories[c]) = k)) % 4) + 1])]

SyncUsers == {NoUser, U1, U1NoPw}

InitBulkSpec ==
    /\ IdleApi /\ IdleCache
    /\ user \in SyncUsers
    /\ storedUser = user
    /\ \E j \in 0 .. 3 : lists = ProfileLists(j)
    /\ timers = {} /\ syncTimeoutRef = NoTimer
    /\ requests = <<>> /\ pending = <<>> /\ settled = {} /\ hist = NoHist
    /\ now = 0 /\ IdlePages

NextBulk ==
    /\ \/ SyncData(FALSE)
       \/ SyncRecent
       \/ \E k \in 1 .. MaxRequests, outcome \in Outcomes : RequestSettles(k, outcome)
       \/ \E k \in 1 .. MaxRequests, outcome \in Outcomes : SyncRecentContinues(k, outcome)
    /\ UNCHANGED <<apiVars, cacheVars, now, pageVars>>

SpecBulk == InitBulkSpec /\ [][NextBulk]_vars

\* ---- incremental sync: one syncAction per user action
InitAutoSpec ==
    /\ IdleApi /\ IdleCache
    /\ user \in SyncUsers
    /\ storedUser = user
    /\ lists = SomeLists
    /\ timers = {} /\ syncTimeoutRef = NoTimer
    /\ requests = <<>> /\ pending = <<>> /\ settled = {} /\ hist = NoHist
    /\ now = 0 /\ IdlePages

NextAction ==
    /\ \/ \E cat \in {"search", "history", "shorts", "subscription"}, i \in PayloadItems :
             SyncAction(PayloadOf(cat, i))
       \/ \E k \in 1 .. MaxActions, outcome \in Outcomes : RequestSettles(k, outcome)
       \/ Logout
    /\ UNCHANGED <<apiVars, cacheVars, now, pageVars>>

SpecAction == InitAutoSpec /\ [][NextAction]_vars

\* ---- debounced sync: triggerAutoSync and its timer
NextDebounce ==
    \/ /\ \/ TriggerAutoSync
          \/ TimerFires
          \/ \E k \in 1 .. MaxRequests, outcome \in Outcomes : RequestSettles(k, outcome)
          \/ Logout
       /\ UNCHANGED <<apiVars, cacheVars, now, pageVars>>
    \/ /\ Tick(MaxTicks)
       /\ UNCHANGED <<apiVars, cacheVars, storeVars, syncVars, pageVars>>

SpecDebounce == InitAutoSpec /\ [][NextDebounce]_vars

\* ---- local deletions, with the debounce timer they may start
\* the ids and terms a deletion can name
SomeIds == {{IdOf(1)}, {IdOf(1), IdOf(2)}}

SomeTerms == {{TextOf(2)}, {TextOf(1), TextOf(2)}}

NextDelete ==
    \/ /\ \/ ClearHistory
          \/ \E ids \in SomeIds : RemoveVideosFromHistory(ids)
          \/ \E id \in {IdOf(1), IdOf(2)} : Unsubscribe(id)
          \/ \E id \in {IdOf(1), IdOf(2)} : UnsubscribeAutoSync(id)
          \/ \E terms \in SomeTerms, g \in BOOLEAN : RemoveSearchTerms(terms, g)
          \/ \E g \in BOOLEAN : ClearSearchHistory(g)
          \/ TimerFires
          \/ \E k \in 1 .. MaxRequests, outcome \in Outcomes : RequestSettles(k, outcome)
       /\ UNCHANGED <<apiVars, cacheVars, now, pageVars>>
    \/ /\ Tick(MaxTicks)
       /\ UNCHANGED <<apiVars, cacheVars, storeVars, syncVars, pageVars>>

SpecDelete == InitAutoSpec /\ [][NextDelete]_vars

\* ---- app loads: the mount effect, the pull it starts, logout
InitLoadSpec ==
    /\ IdleApi /\ IdleCache
    /\ user = NoUser
    /\ storedUser \in SyncUsers
    /\ lists = SomeLists
    /\ timers = {} /\ syncTimeoutRef = NoTimer
    /\ requests = <<>> /\ pending = <<>> /\ settled = {}
    /\ hist = [NoHist EXCEPT !.mounted = FALSE]
    /\ now = 0 /\ IdlePages

NextLoad ==
    /\ \/ PageLoad
       \/ Mount
       \/ \E k \in 1 .. MaxLoads, outcome \in PullOutcomes, items \in CloudResponses :
             PullSettles(k, outcome, items)
       \/ Logout
    /\ UNCHANGED <<apiVars, cacheVars, now, pageVars>>

SpecLoad == InitLoadSpec /\ [][NextLoad]_vars

\* ---- the login form of an anonymous visitor
InitLoginSpec ==
    /\ IdleApi /\ IdleCache
    /\ user = NoUser /\ storedUser = NoUser
    /\ lists = SomeLists
    /\ timers = {} /\ syncTimeoutRef = NoTimer
    /\ requests = <<>> /\ pending = <<>> /\ settled = {} /\ hist = NoHist
    /\ now = 0 /\ IdlePages

NextLogin ==
    /\ \/ \E usr \in {U1, U1NoPw} : Login(usr)
       \/ \E k \in 1 .. MaxRequests, outcome \in PullOutcomes, items \in CloudResponses :
             LoginSettles(k, outcome, items)
       \/ Logout
    /\ UNCHANGED <<apiVars, cacheVars, now, pageVars>>

SpecLogin == InitLoginSpec /\ [][NextLogin]_vars

\* ---- a logged-in session that uses the cache and may log out
InitSessionSpec ==
    /\ IdleApi /\ IdleCache
    /\ user = U1 /\ storedUser = U1
    /\ lists = SomeLists
    /\ timers = {} /\ syncTimeoutRef = NoTimer
    /\ requests = <<>> /\ pending = <<>> /\ settled = {} /\ hist = NoHist
    /\ now = 0 /\ IdlePages

NextSession ==
    \/ /\ \E key \in CacheKeys, ttl \in Ttls : FetchWithCache(1, key, ttl)
       /\ UNCHANGED <<apiVars, syncVars, now, pageVars>>
    \/ /\ \E data \in {"v1", "v2"}, outcome \in SetOutcomes : FetcherResolves(1, data, outcome)
       /\ UNCHANGED <<apiVars, syncVars, now, pageVars>>
    \/ /\ FetcherRejects(1)
       /\ UNCHANGED <<apiVars, syncVars, now, pageVars>>
    \/ /\ Logout
       /\ UNCHANGED <<apiVars, cacheVars, now, pageVars>>
    \/ /\ Tick(MaxCacheAge)
       /\ UNCHANGED <<apiVars, cacheVars, storeVars, syncVars, pageVars>>

SpecSession == InitSessionSpec /\ [][NextSession]_vars

\* ---- concurrent fetchWithCache calls for one key
RaceKey == "home-feed-videos"

NextRace ==
    /\ \E c \in Fetchers :
          \/ \E ttl \in {0, CACHE_TTL} : FetchWithCache(c, RaceKey, ttl)
          \/ \E data \in {"v1", "v2"}, outcome \in SetOutcomes : FetcherResolves(c, data, outcome)
          \/ FetcherRejects(c)
    /\ UNCHANGED <<apiVars, syncVars, now, pageVars>>

SpecRace == InitCacheSpec /\ [][NextRace]_vars

\* ---- the home feed: getRecommendedVideos over fetchWithCache and apiFetch
\* a profile whose cache holds a feed of an earlier visit, or none
InitFeedSpec ==
    /\ InitApi /\ IdleSync
    /\ online = TRUE
    /\ fwc = [c \in Fetchers |-> IdleFetch]
    /\ cacheStore \in {[k \in CacheKeys |-> NoItem],
                        [[k \in CacheKeys |-> NoItem] EXCEPT ![FeedKey] = CacheItem("v1", CACHE_TTL, 0)]}
    /\ storedUser = NoUser
    /\ lists = SomeLists
    /\ now = 0 /\ IdlePages

NextFeed ==
    /\ \/ GetRecommendedVideos
       \/ \E outcome \in SetOutcomes : FeedRequestSettles(outcome)
       \/ SetOnline /\ UNCHANGED <<currentApiBase, mirrorOk, mirrorFail, api>>
    /\ UNCHANGED <<calc, syncVars, now, pageVars>>

SpecFeed == InitFeedSpec /\ [][NextFeed]_vars

\* ---- fetchWithCache with short-lived entries, the browser online
ShortTtls == {0, 1}

NextExpiry ==
    \/ /\ \E key \in CacheKeys, ttl \in ShortTtls : FetchWithCache(1, key, ttl)
       /\ UNCHANGED <<apiVars, syncVars, now, pageVars>>
    \/ /\ \E data \in {"v1", "v2"}, outcome \in SetOutcomes : FetcherResolves(1, data, outcome)
       /\ UNCHANGED <<apiVars, syncVars, now, pageVars>>
    \/ /\ FetcherRejects(1)
       /\ UNCHANGED <<apiVars, syncVars, now, pageVars>>
    \/ /\ Tick(MaxCacheAge)
       /\ UNCHANGED <<apiVars, cacheVars, storeVars, syncVars, pageVars>>

SpecExpiry == InitCacheSpec /\ [][NextExpiry]_vars

\* ---- the watch history: adds, deletions, clearing
\* the lengths of the lists the provider reads from localStorage when it starts
\* (watch history, shorts history): short, full, and longer than the provider itself
\* would make them
HistoryStarts == {<<2, 2>>, <<MAX_HISTORY_LENGTH, 0>>, <<MAX_HISTORY_LENGTH + 1, 0>>}

\* the videos a user watches: the entry at the top, another entry, a new video
Watched == {1, 2, MAX_HISTORY_LENGTH + 2}

\* the shorts a user watches
WatchedShorts == {1, MAX_HISTORY_LENGTH + 2}

\* the ids a deletion names: an old entry and the new video
HistoryRemovals == {{IdOf(2), IdOf(MAX_HISTORY_LENGTH + 2)}}

InitHistorySpec ==
    /\ IdleApi /\ IdleCache
    /\ user \in {NoUser, U1}
    /\ storedUser = user
    /\ \E start \in HistoryStarts :
          lists = [EmptyLists EXCEPT !["videoHistory"] = ListOf("videoHistory", start[1]),
                                     !["shortsHistory"] = ListOf("shortsHistory", start[2])]
    /\ timers = {} /\ syncTimeoutRef = NoTimer
    /\ requests = <<>> /\ pending = <<>> /\ settled = {} /\ hist = NoHist
    /\ now = 0 /\ IdlePages

NextHistory ==
    /\ \/ \E i \in Watched, isGuestMode \in BOOLEAN : AddVideoToHistory(VideoOf(i), isGuestMode)
       \/ \E i \in WatchedShorts, isGuestMode \in BOOLEAN :
             AddShortToHistory(VideoOf(i), isGuestMode)
       \/ \E ids \in HistoryRemovals : RemoveVideosFromHistory(ids)
       \/ ClearHistory
    /\ UNCHANGED <<apiVars, cacheVars, now, pageVars>>

SpecHistory == InitHistorySpec /\ [][NextHistory]_vars

\* ---- the video page and the home page, just opened
InitPagesSpec == IdleApi /\ IdleCache /\ IdleSync /\ IdleStore /\ now = 0 /\ IdlePages

\* ---- the comments of the video page
NextWatch ==
    /\ \/ \E v \in {"a", "b"} : WatchNavigate(v)
       \/ \E newSort \in CommentSorts : HandleCommentSortChange(newSort)
       \/ FetchMoreComments
       \/ \E r \in watch.inflight, outcome \in CommentOutcomes :
             LoadCommentsSettles(r, outcome) \/ SortSettles(r, outcome) \/ MoreSettles(r, outcome)
    /\ UNCHANGED <<apiVars, cacheVars, storeVars, syncVars, now, home>>

SpecWatch == InitPagesSpec /\ [][NextWatch]_vars

\* ---- the feed of the home page
NextHome ==
    /\ \/ \E fresh \in BOOLEAN : HomeMount(fresh)
       \/ HandleRefresh
       \/ LoadMore
       \/ \E pageNum \in 1 .. MaxPages, newVideos \in Answers, rejected \in BOOLEAN :
             RecommendationsSettle(pageNum, newVideos, rejected)
    /\ UNCHANGED <<apiVars, cacheVars, storeVars, syncVars, now, watch>>

SpecHome == InitPagesSpec /\ [][NextHome]_vars

\* ---- the pure helpers of utils/api.ts, applied to inputs
\* durations up to this many seconds are formatted, and a few long ones
MaxSeconds == 7300

Durations == (0 .. MaxSeconds) \cup {35999, 36000, 86399, 360000, 3599999}

\* counts around the thresholds and around the rounding steps
Counts ==
    {0, 1, 500, 999, 1000, 1234, 9999, 10000, 10049, 10050, 10051, 12000, 19500, 20000,
     99999, 123456, 9999499, 99994999, 99995000, 99999499, 99999500, 99999999,
     100000000, 104999999, 105000000, 150000000, 999999999, 1000000000, 2147483647}

UtilCalls ==
    {Call("mapYoutubeiVideoToVideo", item) : item \in Items}
        \cup {Call("MapVideos", <<a, b>>) : a, b \in ListItems}
        \cup {Call("formatJapaneseNumber", [num |-> n, tieUp |-> t]) :
                  n \in Counts, t \in BOOLEAN}
        \cup {Call("formatDuration", sec) : sec \in Durations}

InitUtilsSpec ==
    /\ currentApiBase = 0
    /\ mirrorOk = [m \in API_MIRRORS |-> TRUE]
    /\ mirrorFail = [m \in API_MIRRORS |-> "reject"]
    /\ api = [c \in ApiCalls |-> IdleCall]
    /\ calc \in UtilCalls
    /\ IdleCache /\ IdleSync /\ IdleStore
    /\ now = 0 /\ IdlePages

NextUtils ==
    /\ \/ MapVideo
       \/ MapVideoList
       \/ FormatNumber
       \/ FormatDuration
    /\ UNCHANGED <<currentApiBase, mirrorOk, mirrorFail, api, cacheVars, storeVars, syncVars,
                   now, pageVars>>

SpecUtils == InitUtilsSpec /\ [][NextUtils]_vars

\* ---- the whole client
Init == InitAutoSpec

Next == NextApi \/ NextSweep \/ NextCache \/ NextBulk \/ NextAction \/ NextDebounce \/ NextDelete \/ NextLoad \/ NextLogin \/ NextSession \/ NextRace \/ NextFeed \/ NextExpiry \/ NextUtils \/ NextWatch \/ NextHome \/ NextHistory

Spec == Init /\ [][Next]_vars

(***************************************************************************)
(* Properties                                                              *)
(***************************************************************************)

AllMirrorsFail == \A m \in API_MIRRORS : ~mirrorOk[m]

\* C1: when every mirror fails, an apiFetch call with the default retries throws
\* after exactly NumMirrors attempts and NumMirrors - 1 mirror switches
C1_ThrowsAfterNAttempts ==
    \A c \in ApiCalls :
        (api[c].pc = "thrown" /\ AllMirrorsFail) =>
            (api[c].attempts = NumMirrors /\ api[c].switches = NumMirrors - 1)

\* a step in which call c of fetchWithCache starts
StartStep(c) == fwc[c].pc # "fetching" /\ fwc'[c] # fwc[c]

\* a step in which the fetcher of call c resolves
ResolveStep(c) == fwc[c].pc = "fetching" /\ fwc'[c].pc = "returned" /\ fwc'[c].path = "fetched"

\* a step in which the fetcher of call c rejects
RejectStep(c) == fwc[c].pc = "fetching" /\ fwc'[c].pc # "fetching" /\ fwc'[c].path # "fetched"

\* C2: a call made offline for a key that has an entry, expired or not, returns the
\* entry's data for any ttl, does not invoke the fetcher and leaves the cache as it was
C2_OfflineServesCache ==
    [][\A c \in Fetchers :
         (StartStep(c) /\ ~online /\ cacheStore[fwc'[c].key] # NoItem) =>
            /\ fwc'[c].pc = "returned"
            /\ fwc'[c].result = cacheStore[fwc'[c].key].data
            /\ cacheStore' = cacheStore]_vars

C2_Witness ==
    \E c \in Fetchers :
        /\ fwc[c].pc = "returned" /\ fwc[c].path = "offline"
        /\ ~online
        /\ cacheStore[fwc[c].key] # NoItem
        /\ now >= cacheStore[fwc[c].key].expiry
        /\ fwc[c].result = cacheStore[fwc[c].key].data

\* C3: a call made online for a key whose entry has expired (now >= expiry) invokes
\* the fetcher
C3_ExpiredOnlineRefetches ==
    [][\A c \in Fetchers :
         (StartStep(c) /\ online /\ cacheStore[fwc'[c].key] # NoItem
            /\ now >= cacheStore[fwc'[c].key].expiry) =>
            fwc'[c].pc = "fetching"]_vars

C3_Witness ==
    \E c \in Fetchers :
        /\ fwc[c].pc = "fetching" /\ fwc[c].ttl > 0
        /\ online
        /\ fwc[c].cachedItem # NoItem
        /\ now >= fwc[c].cachedItem.expiry

C5_FallbackOnFetcherFailure ==
    [][\A c \in Fetchers :
         RejectStep(c) =>
            /\ cacheStore' = cacheStore
            /\ IF fwc[c].cachedItem # NoItem
               THEN fwc'[c].pc = "returned" /\ fwc'[c].result = fwc[c].cachedItem.data
               ELSE fwc'[c].pc = "thrown"]_vars

C5_Witness ==
    \E c \in Fetchers :
        /\ fwc[c].pc = "returned" /\ fwc[c].path = "fallback"
        /\ cacheStore[fwc[c].key] # NoItem
        /\ now >= cacheStore[fwc[c].key].expiry
        /\ fwc[c].result = cacheStore[fwc[c].key].data

\* C6: with ttl = 0 an online call always invokes the fetcher, and the result is
\* stored with expiry now + CACHE_TTL
C6_TtlZeroRevalidates ==
    [][\A c \in Fetchers :
         /\ (StartStep(c) /\ online /\ fwc'[c].ttl = 0) => fwc'[c].pc = "fetching"
         /\ (ResolveStep(c) /\ fwc[c].ttl = 0 /\ fwc'[c].outcome = "stored") =>
               /\ cacheStore'[fwc[c].key].expiry = now + CACHE_TTL
               /\ cacheStore'[fwc[c].key].expiry > now]_vars

C6_Witness ==
    \E c \in Fetchers :
        /\ fwc[c].pc = "fetching" /\ fwc[c].ttl = 0
        /\ online
        /\ fwc[c].cachedItem # NoItem
        /\ now < fwc[c].cachedItem.expiry
        /\ fwc[c].cachedItem.expiry >= CACHE_TTL

\* C7: a cache write that fails on the storage quota leaves every key that is not a
\* cache key (xerox_user, the history lists, the subscriptions) unchanged
C7_QuotaEvictsOnlyCacheKeys ==
    [][\A c \in Fetchers :
         (ResolveStep(c) /\ fwc'[c].outcome = "quota") =>
            (lists' = lists /\ storedUser' = storedUser)]_vars

\* the list a request parameter is built from
ParamList(n) ==
    CASE n = "searchID"                             -> "searchHistory"
      [] n \in {"histryid", "test"}                 -> "videoHistory"
      [] n \in {"shorthistryID", "shorthistrytext"} -> "shortsHistory"
      [] OTHER                                      -> "subscribedChannels"

IdParams == {"histryid", "shorthistryID", "subscriptionID"}

BulkRequests == {i \in 1 .. Len(requests) : requests[i].fn \in {"syncData", "syncRecent"}}

\* a bulk request carries, in each parameter, exactly the first min(length, cap)
\* entries of the list it was built from
SendsFirst(r, n, cap) ==
    LET src == r.src[ParamList(n)]
    IN  /\ Len(r.params[n]) = Min(Len(src), cap)
        /\ n \in IdParams => r.params[n] = [j \in 1 .. Min(Len(src), cap) |-> src[j].id]

\* C8 as stated: every bulk request is capped, for every category, at the limit its
\* function configures (limit = 50 in syncData, limit = 3 in syncRecent)
C8_BulkSyncCappedAtLimit ==
    \A i \in BulkRequests :
        \A n \in DOMAIN requests[i].params :
            SendsFirst(requests[i], n,
                       IF requests[i].fn = "syncData" THEN SYNC_DATA_LIMIT
                       ELSE SYNC_RECENT_LIMIT)

\* the cap the code applies to a parameter
CapOf(fn, n) ==
    IF fn = "syncData" THEN SYNC_DATA_LIMIT
    ELSE IF n = "searchID" THEN SYNC_RECENT_SEARCH
    ELSE SYNC_RECENT_LIMIT

\* C8 amended: syncData caps every category at 50; syncRecent caps history, shorts and
\* subscriptions at 3 and search terms at 10
C8_BulkSyncCappedPerCategory ==
    \A i \in BulkRequests :
        \A n \in DOMAIN requests[i].params :
            SendsFirst(requests[i], n, CapOf(requests[i].fn, n))

C8_Witness ==
    /\ \E i \in BulkRequests :
          /\ requests[i].fn = "syncData"
          /\ \E n \in DOMAIN requests[i].params :
                /\ Len(requests[i].src[ParamList(n)]) > SYNC_DATA_LIMIT
                /\ Len(requests[i].params[n]) = SYNC_DATA_LIMIT
    /\ \E i \in BulkRequests :
          /\ requests[i].fn = "syncRecent"
          /\ requests[i].category = "search"
          /\ Len(requests[i].src["searchHistory"]) > SYNC_RECENT_SEARCH
          /\ Len(requests[i].params["searchID"]) = SYNC_RECENT_SEARCH
    /\ \E i \in BulkRequests :
          /\ requests[i].fn = "syncRecent"
          /\ requests[i].category = "history"
          /\ Len(requests[i].src["videoHistory"]) > SYNC_RECENT_LIMIT
          /\ Len(requests[i].params["histryid"]) = SYNC_RECENT_LIMIT

\* the parameters syncAction may set for a category
CategoryParams(cat) ==
    CASE cat = "search"  -> {"searchID"}
      [] cat = "history" -> {"histryid", "test"}
      [] cat = "shorts"  -> {"shorthistryID", "shorthistrytext"}
      [] OTHER           -> {"subscriptionID", "subscriptionname", "subscriptionimage"}

ActionRequests == {i \in 1 .. Len(requests) : requests[i].fn = "syncAction"}

\* C9: every syncAction call made while a user with a password is logged in issues
\* exactly one writealldeta request, with the credentials and only the parameters of
\* the item's category, one item each; a call made otherwise issues none; the promise
\* of syncAction never rejects
C9_SyncActionFireAndForget ==
    /\ Cardinality(ActionRequests) = hist.actionAuth
    /\ \A i \in ActionRequests :
          /\ requests[i].action = "writealldeta"
          /\ requests[i].userid # "" /\ requests[i].pw # ""
          /\ DOMAIN requests[i].params \subseteq CategoryParams(requests[i].category)
          /\ \A n \in DOMAIN requests[i].params : Len(requests[i].params[n]) = 1
    /\ \A e \in settled : e[1] = "syncAction" => e[3] = "resolved"

C9_Witness ==
    /\ hist.actionAuth >= 1
    /\ hist.actionAnon >= 1
    /\ Cardinality(ActionRequests) = hist.actionAuth
    /\ <<"syncAction", "reject", "resolved">> \in settled

SilentSyncs == {i \in 1 .. Len(requests) : requests[i].fn = "syncData" /\ requests[i].silent}

C11_DeletionsStayLocal == requests = <<>>

\* a step in which the mount effect runs
MountStep == ~hist.mounted /\ hist'.mounted

PullRequests == {i \in 1 .. Len(requests) : requests[i].action = "readalluserdate"}

\* a step in which a successful pull is merged
MergeStep == \E e \in settled' \ settled : e[1] = "fetchUserData" /\ e[2] = "success"

\* the ids the cloud data holds for the category of a list
CloudIds(items, key) ==
    {items[i].id : i \in {j \in DOMAIN items : CloudListKey(items[j].category) = key}}

IdLists == {"videoHistory", "shortsHistory", "subscribedChannels"}

C14_LogoutInvalidatesCache ==
    [][\A c \in Fetchers :
         (/\ StartStep(c)
          /\ user = NoUser
          /\ cacheStore[fwc'[c].key] # NoItem
          /\ cacheStore[fwc'[c].key] = hist.logoutCache[fwc'[c].key]) =>
            fwc'[c].path # "fresh"]_vars

\* String.prototype.split(','), the way the backend takes a parameter apart
Split(s) == SplitOn(s, ",")

\* the comma-joined parameters that carry free text, and the id parameter each one
\* is aligned with (search terms have no id list)
TextParams == {"searchID", "test", "shorthistrytext", "subscriptionname"}

IdParamOf(n) ==
    CASE n = "test"            -> "histryid"
      [] n = "shorthistrytext" -> "shorthistryID"
      [] n = "subscriptionname" -> "subscriptionID"
      [] OTHER                 -> n

\* C15: in every sync request, every free-text value of a comma-joined parameter is
\* comma-free and at most SAFE_STR_MAX characters plus the ellipsis long, and the
\* joined parameter built from k items splits on ',' into exactly k fields, as many
\* as the id parameter of the same category
C15_NoItemAddsDelimiter ==
    \A i \in 1 .. Len(requests) :
        \A n \in DOMAIN requests[i].params \cap TextParams :
            LET values == requests[i].params[n]
                fields == Split(Join(values))
            IN  /\ \A k \in DOMAIN values :
                      /\ \A c \in DOMAIN values[k] : values[k][c] # ","
                      /\ Len(values[k]) <= SAFE_STR_MAX + 3
                /\ Len(fields) = Len(values)
                /\ IdParamOf(n) \in DOMAIN requests[i].params =>
                      Len(fields) = Len(Split(Join(requests[i].params[IdParamOf(n)])))

\* C16: a call that starts while another call for the same key is in flight and finds
\* no fresh entry invokes its own fetcher; every fetcher that resolves overwrites the
\* entry with its own result (when localStorage accepts the write), whatever the other
\* calls did, so the entry holds the result of the fetcher that completed last
C16_LastWriterWins ==
    [][\A c \in Fetchers :
         /\ (/\ StartStep(c)
             /\ \E d \in Fetchers \ {c} : fwc[d].pc = "fetching" /\ fwc[d].key = fwc'[c].key
             /\ ~FreshHit(cacheStore[fwc'[c].key], fwc'[c].ttl, now)
             /\ online) => fwc'[c].pc = "fetching"
         /\ (ResolveStep(c) /\ fwc'[c].outcome = "stored") =>
                cacheStore'[fwc[c].key] =
                    [data |-> fwc'[c].result, expiry |-> now + EffectiveTtl(fwc[c].ttl)]]_vars

\* two calls for the key were in flight together; one has resolved and written its
\* result over the result the other wrote before it
C16_Witness ==
    \E c, d \in Fetchers :
        /\ c # d
        /\ fwc[c].pc = "returned" /\ fwc[c].path = "fetched" /\ fwc[c].outcome = "stored"
        /\ fwc[d].pc = "returned" /\ fwc[d].path = "fetched" /\ fwc[d].outcome = "stored"
        /\ fwc[c].key = fwc[d].key
        /\ fwc[c].ttl = 0 /\ fwc[d].ttl # 0
        /\ fwc[c].result # fwc[d].result
        /\ cacheStore[fwc[c].key] = [data |-> fwc[d].result, expiry |-> now + fwc[d].ttl]

IdFields(item) == <<item.id, item.videoId, item.video_id>>

ShownTenths(str) ==
    LET k == LeadingDigits(str)
    IN  parseInt(SubSeq(str, 1, k)) * 10
            + (IF Len(str) > k /\ str[k + 1] = "." THEN DigitValue(str[k + 2]) ELSE 0)

\* C18: for a count n, n >= 10^8 is shown as n / 10^8 rounded to one decimal with
\* the unit oku, 10^4 <= n < 10^8 as n / 10^4 rounded to one decimal with the unit
\* man and below 10000 man (a value of 10000 man is 1 oku), and n < 10^4 as the
\* grouped integer; 150000000 is 1.5 oku, 12000 is 1.2 man, 500 is 500
C18_JapaneseNumberThresholds ==
    (calc.fn = "formatJapaneseNumber" /\ calc.done) =>
        LET n   == calc.arg.num
            out == calc.out
        IN  /\ n >= OKU =>
                  /\ out[Len(out)] = "oku"
                  /\ ShownTenths(out) \in {n \div (OKU \div 10), n \div (OKU \div 10) + 1}
            /\ (n >= MAN /\ n < OKU) =>
                  /\ out[Len(out)] = "man"
                  /\ ShownTenths(out) \in {n \div (MAN \div 10), n \div (MAN \div 10) + 1}
                  /\ ShownTenths(out) < 10 * (OKU \div MAN)
            /\ n < MAN => SelectSeq(out, LAMBDA ch : ch # ",") = ToDigits(n)
            /\ n = 150000000 => out = <<"1", ".", "5", "oku">>
            /\ n = 12000 => out = <<"1", ".", "2", "man">>
            /\ n = 500 => out = <<"5", "0", "0">>

\* C19: formatDuration(s) has two parts M:SS below one hour and three parts H:MM:SS
\* from one hour on, the parts after the first are two digits below 60, the first has
\* no leading zero, and parseDuration('', formatDuration(s)) is s; 75 is 1:15 and 3661
\* is 1:01:01
C19_DurationRoundTrip ==
    (calc.fn = "formatDuration" /\ calc.done) =>
        LET sec   == calc.arg
            text  == calc.out.text
            parts == SplitOn(text, ":")
        IN  /\ Len(parts) = IF sec < 3600 THEN 2 ELSE 3
            /\ \A i \in 2 .. Len(parts) :
                  /\ Len(parts[i]) = 2
                  /\ LeadingDigits(parts[i]) = 2
                  /\ parseInt(parts[i]) < 60
            /\ LeadingDigits(parts[1]) = Len(parts[1])
            /\ Len(parts[1]) > 1 => parts[1][1] # "0"
            /\ calc.out.parsed = sec
            /\ sec = 75 => text = <<"1", ":", "1", "5">>
            /\ sec = 3661 => text = <<"1", ":", "0", "1", ":", "0", "1">>

C19_Witness ==
    /\ calc.fn = "formatDuration" /\ calc.done
    /\ calc.arg = 3661
    /\ calc.out.text = <<"1", ":", "0", "1", ":", "0", "1">>
    /\ calc.out.parsed = 3661

\* C20: an apiFetch call that throws has itself requested every mirror of
\* API_MIRRORS at least once, also when other calls are in flight, so no mirror that
\* answers was left untried by it
C20_OwnCompleteSweep ==
    \A c \in ApiCalls :
        api[c].pc = "thrown" =>
            /\ api[c].tried = API_MIRRORS
            /\ \A m \in API_MIRRORS : mirrorOk[m] => m \in api[c].tried

\* the first mirror in circular order from mirror m, after k steps or more, that
\* answers 2xx with JSON (k = NumMirrors: none within one round)
RECURSIVE FirstAnswering(_, _)
FirstAnswering(m, k) ==
    IF k = NumMirrors THEN -1
    ELSE IF mirrorOk[(m + k) % NumMirrors] THEN (m + k) % NumMirrors
    ELSE FirstAnswering(m, k + 1)

\* a step in which the request of call c fails in the given way
FailStep(c, kind) ==
    /\ api[c].pc = "waiting"
    /\ ~mirrorOk[api[c].target]
    /\ mirrorFail[api[c].target] = kind
    /\ api' # api

\* C21: with calls made one after the other, a request that is rejected, answers non-2xx
\* or answers with a non-JSON body makes the call switch to the next mirror in circular
\* order and request it with retries - 1 (or throw when retries is 0), and a call that
\* returns returns the data of the first answering mirror, in circular order from the
\* mirror that was current when it started
C21_FailuresAlikeFirstAnswering ==
    [][/\ \A kind \in FailureKinds :
            (FailStep(1, kind) /\ api[1].retries > 0) =>
                /\ currentApiBase' = (currentApiBase + 1) % NumMirrors
                /\ api'[1].pc = "waiting"
                /\ api'[1].target = currentApiBase'
                /\ api'[1].retries = api[1].retries - 1
       /\ \A kind \in FailureKinds :
            (FailStep(1, kind) /\ api[1].retries = 0) => api'[1].pc = "thrown"
       /\ (api[1].pc = "waiting" /\ api'[1].pc = "returned") =>
            /\ mirrorOk[api'[1].result]
            /\ api'[1].result =
                  FirstAnswering((api[1].target + NumMirrors - (api[1].switches % NumMirrors))
                                     % NumMirrors, 0)]_vars

C21_Witness ==
    /\ api[1].pc = "returned"
    /\ api[1].switches = 3
    /\ \E m1, m2, m3 \in api[1].tried :
          /\ ~mirrorOk[m1] /\ ~mirrorOk[m2] /\ ~mirrorOk[m3]
          /\ mirrorFail[m1] = "reject" /\ mirrorFail[m2] = "non2xx" /\ mirrorFail[m3] = "nonjson"

\* C22: with calls made one after the other, no step moves the current mirror other
\* than one place forward, a call that returns from its first request leaves the
\* current mirror where it was, and the first request of a call goes to the mirror
\* of the last request of the call before it
C22_MirrorNeverReset ==
    [][/\ currentApiBase' \in {currentApiBase, (currentApiBase + 1) % NumMirrors}
       /\ (api[1].pc = "waiting" /\ api[1].attempts = 1 /\ api'[1].pc = "returned") =>
             /\ currentApiBase' = currentApiBase
             /\ currentApiBase' = api[1].target
       /\ (api[1].pc \in {"returned", "thrown"} /\ api'[1].pc = "waiting") =>
             /\ api'[1].attempts = 1
             /\ api'[1].target = api[1].target
             /\ currentApiBase' = api[1].target]_vars

\* a second call has started where a call that failed over had stopped
C22_Witness ==
    /\ api[1].pc = "waiting"
    /\ api[1].attempts = 1
    /\ api[1].prev \in API_MIRRORS
    /\ api[1].target = api[1].prev
    /\ \E m \in API_MIRRORS : ~mirrorOk[m] /\ mirrorOk[api[1].prev] /\ api[1].prev # 0

\* the entry of key k is there and has expired
Expired(k) == cacheStore[k] # NoItem /\ now >= cacheStore[k].expiry

\* a step in which call c starts with ttl > 0 and finds an unexpired entry
FreshStartStep(c) ==
    /\ StartStep(c)
    /\ fwc'[c].ttl > 0
    /\ cacheStore[fwc'[c].key] # NoItem
    /\ now < cacheStore[fwc'[c].key].expiry

\* a fresh hit returns the entry's data, starts no fetcher and writes nothing
FreshHitNoEffects ==
    \A c \in Fetchers :
        FreshStartStep(c) =>
            /\ fwc'[c].pc = "returned"
            /\ fwc'[c].result = cacheStore[fwc'[c].key].data
            /\ cacheStore' = cacheStore
            /\ lists' = lists /\ storedUser' = storedUser

C24_NoSyncAfterLogout ==
    [][user = NoUser => requests' = requests]_vars

\* the ways a login settles in this step
LoginEnds == {e \in settled' \ settled : e[1] = "login"}

\* C25: when login(id, pw) settles, the session is authenticated (user set and
\* xerox_user stored) exactly when the backend answered success and the promise
\* resolved; a login that rejects, or whose answer does not report success, leaves
\* user null and no xerox_user
C25_LoginIffAccepted ==
    [][\A e \in LoginEnds :
         /\ (user' # NoUser /\ storedUser' # NoUser) <=> (e[2] = "success" /\ e[3] = "resolved")
         /\ (e[3] = "rejected" \/ e[2] # "success") => (user' = NoUser /\ storedUser' = NoUser)]_vars

\* C26: a merge keeps every local record of videoHistory, shortsHistory and
\* subscribedChannels whose id the cloud data does not hold, and leaves a list
\* unchanged when the cloud data holds no item of its category
C26_MergeKeepsLocalRecords ==
    [][MergeStep =>
         \A k \in IdLists :
            /\ \A i \in DOMAIN lists[k] :
                  lists[k][i].id \notin CloudIds(hist'.cloud, k) =>
                      \E j \in DOMAIN lists'[k] : lists'[k][j] = lists[k][i]
            /\ CloudIds(hist'.cloud, k) = {} => lists'[k] = lists[k]]_vars

\* C27: when getRecommendedVideos finds a non-empty cached feed and every mirror
\* fails, it returns the cached feed and leaves the cache entry as it was
C27_FailedRefreshKeepsFeed ==
    [][(/\ fwc[1].pc = "fetching" /\ fwc'[1].pc # "fetching"
        /\ fwc[1].key = FeedKey
        /\ AllMirrorsFail
        /\ cacheStore[FeedKey] # NoItem
        /\ cacheStore[FeedKey].data # EmptyFeed) =>
           /\ fwc'[1].result = cacheStore[FeedKey].data
           /\ cacheStore'[FeedKey] = cacheStore[FeedKey]]_vars

\* C28: every comment shown belongs to the current videoId and to the selected
\* sort order, whatever the order in which the getComments responses arrive
C28_CommentsMatchSelection ==
    \A i \in DOMAIN watch.comments :
        /\ watch.comments[i].video = watch.videoId
        /\ watch.comments[i].sort = watch.commentSort

HasNoDuplicateIds(seq) == Cardinality({seq[i].id : i \in DOMAIN seq}) = Len(seq)

\* a call of addVideoToHistory or addShortToHistory outside guest mode is one
\* more syncAction call
AddStep == hist'.actionAuth + hist'.actionAnon > hist.actionAuth + hist.actionAnon

GuestAddStep == hist'.ignored > hist.ignored

\* C30 as stated: after every operation each history list has no id twice, at most
\* MAX_HISTORY_LENGTH entries and the video added last at index 0; an add in guest
\* mode changes no list and sends no request
C30_HistoryListsAsStated ==
    [][/\ \A k \in HistoryKeys :
             /\ HasNoDuplicateIds(lists'[k])
             /\ Len(lists'[k]) <= MAX_HISTORY_LENGTH
             /\ hist'.added[k] # NoId =>
                    Len(lists'[k]) > 0 /\ lists'[k][1].id = hist'.added[k]
       /\ GuestAddStep => lists' = lists /\ requests' = requests]_vars

\* C30: starting from duplicate-free lists, every operation leaves each history
\* list duplicate-free and no longer than the longer of MAX_HISTORY_LENGTH and its
\* length before; an add outside guest mode leaves the added video at index 0 and,
\* when it changes the list, at most MAX_HISTORY_LENGTH entries; an add in guest
\* mode changes no list and sends no request
C30_HistoryListsKept ==
    [][/\ \A k \in HistoryKeys :
             /\ HasNoDuplicateIds(lists'[k])
             /\ Len(lists'[k]) <= IF Len(lists[k]) > MAX_HISTORY_LENGTH
                                  THEN Len(lists[k]) ELSE MAX_HISTORY_LENGTH
             /\ AddStep /\ hist'.added[k] # hist.added[k] =>
                    Len(lists'[k]) > 0 /\ lists'[k][1].id = hist'.added[k]
             /\ AddStep /\ lists'[k] # lists[k] =>
                    /\ Len(lists'[k]) <= MAX_HISTORY_LENGTH
                    /\ lists'[k][1].id = hist'.added[k]
       /\ GuestAddStep => lists' = lists /\ requests' = requests]_vars

\* a full list took a new video at index 0 and dropped its oldest entry, and guest
\* mode ignored an add
C30_Witness ==
    /\ Len(lists["videoHistory"]) = MAX_HISTORY_LENGTH
    /\ lists["videoHistory"][1].id = IdOf(MAX_HISTORY_LENGTH + 2)
    /\ lists["videoHistory"][MAX_HISTORY_LENGTH].id = IdOf(MAX_HISTORY_LENGTH - 1)
    /\ hist.added["videoHistory"] = IdOf(MAX_HISTORY_LENGTH + 2)
    /\ hist.ignored > 0

====
